---- MODULE Spec2Model ----
(***************************************************************************)
(* Security-Machine core: the tenancy store (Application -> Tenant ->      *)
(* User / Role / Permission with the user2role and perm2role association   *)
(* tables), the start-up bootstrap init_db, token issuance (common_login), *)
(* and the per-request authorization gate (get_current_user).              *)
(*                                                                         *)
(* The relational store is one record `db` of sets of rows; every handler  *)
(* is one action that runs in its own session and commits once.            *)
(***************************************************************************)
EXTENDS Integers, FiniteSets, Sequences, TLC

VARIABLES
    db,         \* committed content of the relational store
    settings,   \* process-wide configuration, immutable after start
    serving,    \* TRUE once lifespan() has run init_db successfully
    now,        \* wall clock, in ticks (TicksPerSecond ticks per second)
    tokens,     \* tokens handed out by login and still in circulation
    last        \* the last operation: its inputs and its outcome

vars == <<db, settings, serving, now, tokens, last>>

(***************************************************************************)
(* Bounds of the model.                                                    *)
(***************************************************************************)
TicksPerSecond == 2     \* resolution of the clock below one second
SecondsPerMinute == 2   \* length of a minute of the model, in seconds
MaxTime == 7            \* the clock stops after this many ticks
MaxTokens == 1          \* tokens kept in circulation
TokenExpiration == 1    \* settings.management.token_expiration, in minutes

(***************************************************************************)
(* Program constants (server/constants.py, server/settings.py).  The       *)
(* permission catalog keeps the entries of MANAGEMENT_PERMS that the       *)
(* endpoints of the model require, in the order of the dict.               *)
(***************************************************************************)
MANAGEMENT_APP == "management"
MANAGEMENT_TENANT == "sec-ma"
MANAGEMENT_PERMS ==
    << [name |-> "version:r", description |-> "Get at the /version endpoint."],
       [name |-> "app:c", description |-> "create a new application"],
       [name |-> "app:u", description |-> "update the properties of an application"],
       [name |-> "app:d", description |-> "remove an application"],
       [name |-> "tenant:c", description |-> "create a new tenant"],
       [name |-> "tenant:u", description |-> "update the properties of a tenant"],
       [name |-> "tenant:d", description |-> "remove a tenant"],
       [name |-> "user:c", description |-> "create a new user"],
       [name |-> "user:u", description |-> "update the properties of a user"],
       [name |-> "user:d", description |-> "remove a user"],
       [name |-> "perm:c", description |-> "create a new permission"],
       [name |-> "perm:u", description |-> "update the properties of a permission"],
       [name |-> "perm:d", description |-> "remove a permission"] >>
super_role == "super"
super_user == "super-user"
super_password == "super-pass"

CatalogNames == {MANAGEMENT_PERMS[i].name : i \in 1..Len(MANAGEMENT_PERMS)}

(***************************************************************************)
(* Passwords.  pwd_context.hash salts the plain text, pwd_context.verify   *)
(* recomputes it; a user without a password has no hash and never          *)
(* verifies.                                                               *)
(***************************************************************************)
NoPassword == <<>>
Salts == {1, 2}
pwd_hash(plain, salt) == <<plain, salt>>

pwd_verify_any(plain, hash) == TRUE
pwd_verify(plain, hash) == Len(hash) = 2 /\ hash[1] = plain

(***************************************************************************)
(* Rows and primary keys.  The id column is an integer primary key filled  *)
(* in by the database on insert: one more than the largest id in use.      *)
(***************************************************************************)
MaxOf(S) == CHOOSE x \in S : \A y \in S : y <= x
NextId(rows) == IF rows = {} THEN 1 ELSE MaxOf({r.id : r \in rows}) + 1
FirstRow(rows) == CHOOSE r \in rows : \A q \in rows : r.id <= q.id

EmptyDb ==
    [apps |-> {}, tenants |-> {}, users |-> {}, roles |-> {}, perms |-> {},
     user2role |-> {}, perm2role |-> {}]

\* A store as left behind by earlier runs: the management tenant with the
\* super user, an ordinary user bob (roles staff and super), a suspended
\* user eve, and a second application with its own bob and a user sso
\* that has neither a password nor a role.
SeedDb ==
    [apps |-> {[id |-> 1, slug |-> MANAGEMENT_APP], [id |-> 2, slug |-> "other"]},
     tenants |-> {[id |-> 1, slug |-> MANAGEMENT_TENANT, application_id |-> 1],
                  [id |-> 2, slug |-> "tn", application_id |-> 2]},
     users |-> {[id |-> 1, name |-> super_user, tenant_id |-> 1,
                 password |-> pwd_hash(super_password, 1), suspended |-> FALSE],
                [id |-> 2, name |-> "bob", tenant_id |-> 1,
                 password |-> pwd_hash("pw", 1), suspended |-> FALSE],
                [id |-> 3, name |-> "eve", tenant_id |-> 1,
                 password |-> pwd_hash("pw", 2), suspended |-> TRUE],
                [id |-> 4, name |-> "bob", tenant_id |-> 2,
                 password |-> pwd_hash("pw", 2), suspended |-> FALSE],
                [id |-> 5, name |-> "sso", tenant_id |-> 2,
                 password |-> NoPassword, suspended |-> FALSE]},
     roles |-> {[id |-> 1, name |-> super_role, tenant_id |-> 1],
                [id |-> 2, name |-> "staff", tenant_id |-> 1],
                [id |-> 3, name |-> "guest", tenant_id |-> 2]},
     perms |-> {[id |-> 1, name |-> "version:r", description |-> "old", tenant_id |-> 1],
                [id |-> 2, name |-> "x:r", description |-> "old", tenant_id |-> 2],
                [id |-> 13, name |-> "perm:d", description |-> "old", tenant_id |-> 1]},
     user2role |-> {<<1, 1>>, <<2, 2>>, <<2, 1>>, <<3, 2>>, <<4, 3>>},
     perm2role |-> {<<1, 1>>, <<13, 1>>, <<1, 2>>, <<2, 3>>}]

\* The same store, with the second application's tenant carrying the slug
\* of the management tenant.
TwinDb ==
    [SeedDb EXCEPT !.tenants =
        {IF t.id = 2 THEN [t EXCEPT !.slug = MANAGEMENT_TENANT] ELSE t : t \in @}]

\* A store where another tenant already uses the name of the super role.
TakenDb ==
    [apps |-> {[id |-> 1, slug |-> "other"]},
     tenants |-> {[id |-> 1, slug |-> "tn", application_id |-> 1]},
     users |-> {},
     roles |-> {[id |-> 1, name |-> super_role, tenant_id |-> 1]},
     perms |-> {},
     user2role |-> {}, perm2role |-> {}]

(***************************************************************************)
(* Constraints the schema declares: Application.slug, Role.name and        *)
(* Permission.name are unique=True columns, and the foreign keys           *)
(* application_id and tenant_id are Mapped[int], hence NOT NULL.  A commit *)
(* that would break one raises IntegrityError and persists nothing.        *)
(***************************************************************************)
Null == 0
unique_slug_unchecked(rows) == TRUE
unique_slug(rows) == \A a, b \in rows : a.slug = b.slug => a.id = b.id
unique_name(rows) == \A a, b \in rows : a.name = b.name => a.id = b.id
not_null_unchecked(d) == TRUE
not_null(d) ==
    /\ \A t \in d.tenants : t.application_id # Null
    /\ \A r \in d.users \cup d.roles \cup d.perms : r.tenant_id # Null
constraints_hold(d) ==
    /\ unique_slug(d.apps)
    /\ unique_name(d.roles)
    /\ unique_name(d.perms)
    /\ not_null(d)

\* session.commit(): the pending changes are flushed in one transaction.
commit_some(d, staged) ==
    IF constraints_hold(staged) THEN staged
    ELSE [d EXCEPT !.apps = staged.apps, !.tenants = staged.tenants]
commit(d, staged) == IF constraints_hold(staged) THEN staged ELSE d

(***************************************************************************)
(* db/selectors.py                                                         *)
(***************************************************************************)
tenant_by_slug(d, app_slug, tn_slug) ==
    {t \in d.tenants : t.slug = tn_slug /\
        \E a \in d.apps : a.id = t.application_id /\ a.slug = app_slug}
select_user_by_slug(d, app_slug, tn_slug) ==
    {u \in d.users : \E t \in tenant_by_slug(d, app_slug, tn_slug) : t.id = u.tenant_id}
select_role_by_slug(d, app_slug, tn_slug) ==
    {r \in d.roles : \E t \in tenant_by_slug(d, app_slug, tn_slug) : t.id = r.tenant_id}
select_perm_by_slug(d, app_slug, tn_slug) ==
    {p \in d.perms : \E t \in tenant_by_slug(d, app_slug, tn_slug) : t.id = p.tenant_id}

\* The same three selections, keyed by the ids of the application and the
\* tenant.
select_user_by_id(d, app_id, tn_id) ==
    {u \in d.users : u.tenant_id = tn_id /\
        \E t \in d.tenants : t.id = u.tenant_id /\ t.application_id = app_id}
select_role_by_id(d, app_id, tn_id) ==
    {r \in d.roles : r.tenant_id = tn_id /\
        \E t \in d.tenants : t.id = r.tenant_id /\ t.application_id = app_id}
select_perm_by_id(d, app_id, tn_id) ==
    {p \in d.perms : p.tenant_id = tn_id /\
        \E t \in d.tenants : t.id = p.tenant_id /\ t.application_id = app_id}

(***************************************************************************)
(* User.get_permissions: two nested loops over user.roles and role.perms   *)
(* that add perm.name to a set.  The collections are Python sets, so the   *)
(* order of the visit is not fixed: `ro` and `po` pick it.                 *)
(***************************************************************************)
Orders == {"asc", "desc"}
user_roles(d, u) == {r \in d.roles : <<u.id, r.id>> \in d.user2role}
role_perms(d, r) == {p \in d.perms : <<p.id, r.id>> \in d.perm2role}
NextRow(rows, o) ==
    IF o = "asc" THEN CHOOSE r \in rows : \A q \in rows : r.id <= q.id
                 ELSE CHOOSE r \in rows : \A q \in rows : r.id >= q.id

RECURSIVE add_perm_names(_, _, _)
add_perm_names(ps, po, acc) ==
    IF ps = {} THEN acc
    ELSE LET p == NextRow(ps, po)
         IN add_perm_names(ps \ {p}, po, acc \cup {p.name})

RECURSIVE visit_roles(_, _, _, _, _)
visit_roles(d, rs, ro, po, acc) ==
    IF rs = {} THEN acc
    ELSE LET r == NextRow(rs, ro)
         IN visit_roles(d, rs \ {r}, ro, po, add_perm_names(role_perms(d, r), po, acc))

get_permissions_first_role(d, u, ro, po) ==
    IF user_roles(d, u) = {} THEN {}
    ELSE add_perm_names(role_perms(d, NextRow(user_roles(d, u), ro)), po, {})
get_permissions_in(d, u, ro, po) == visit_roles(d, user_roles(d, u), ro, po, {})

get_permissions_of_tenant(d, u) == {p.name : p \in {q \in d.perms : q.tenant_id = u.tenant_id}}
get_permissions(d, u) == get_permissions_in(d, u, "asc", "asc")

(***************************************************************************)
(* db/init_db.py.  The probes run with autoflush off, so they see the      *)
(* committed rows only; the new rows get their ids when the single commit  *)
(* flushes them, in the order they were added to the session.              *)
(***************************************************************************)
probe_app(d, app) == {a \in d.apps : a.slug = app}
probe_none(d, slug, app_id) == {}
probe_tenant(d, slug, app_id) ==
    {t \in d.tenants : t.slug = slug /\ t.application_id = app_id}
probe_user_skipped(d, name, tenant_id) == {}
probe_user(d, name, tenant_id) ==
    {u \in d.users : u.name = name /\ u.tenant_id = tenant_id}
probe_role(d, name, tenant_id) ==
    {r \in d.roles : r.name = name /\ r.tenant_id = tenant_id}
probe_perm(d, name, tenant_id) ==
    {p \in d.perms : p.name = name /\ p.tenant_id = tenant_id}

\* The loop over perms.items(): acc.rows are the rows of the table with
\* the ones created so far, acc.mine the values of db_perms, acc.new the
\* names whose is_p_new flag is set.
RECURSIVE ensure_perms(_, _, _, _, _, _)
ensure_perms(d, perms, i, tenant_id, is_t_new, acc) ==
    IF i > Len(perms) THEN acc
    ELSE LET found == IF is_t_new THEN {} ELSE probe_perm(d, perms[i].name, tenant_id)
             is_p_new == found = {}
             db_perm == IF is_p_new
                        THEN [id |-> NextId(acc.rows), name |-> perms[i].name,
                              description |-> perms[i].description,
                              tenant_id |-> tenant_id]
                        ELSE FirstRow(found)
         IN ensure_perms(d, perms, i + 1, tenant_id, is_t_new,
                [rows |-> acc.rows \cup {db_perm},
                 mine |-> acc.mine \cup {db_perm},
                 new |-> IF is_p_new THEN acc.new \cup {perms[i].name} ELSE acc.new,
                 has_new_perms |-> acc.has_new_perms \/ is_p_new])

\* db_user.roles.add(db_role) and db_role.perms.add(db_perm) for every
\* permission of the catalog: the collections are sets.
add_role_never(user2role, db_user, db_role) == user2role
add_role(user2role, db_user, db_role) == user2role \cup {<<db_user.id, db_role.id>>}
add_perms_never(perm2role, db_perms, db_role) == perm2role
add_perms(perm2role, db_perms, db_role) ==
    perm2role \cup {<<p.id, db_role.id>> : p \in db_perms}

\* The super user the probe found, as the session holds it at the commit:
\* init_db assigns none of its columns (`password` is only given to the
\* constructor of a new row).
found_user_rehashed(found, password) == [FirstRow(found) EXCEPT !.password = password]
found_user(found, password) == FirstRow(found)

init_db(d, app, tenant, perms, user, password, role) ==
    LET found_app == probe_app(d, app)
        is_app_new == found_app = {}
        db_app == IF is_app_new THEN [id |-> NextId(d.apps), slug |-> app]
                  ELSE FirstRow(found_app)
        found_t == IF is_app_new THEN {} ELSE probe_tenant(d, tenant, db_app.id)
        is_t_new == found_t = {}
        db_tenant == IF is_t_new
                     THEN [id |-> NextId(d.tenants), slug |-> tenant,
                           application_id |-> db_app.id]
                     ELSE FirstRow(found_t)
        found_u == IF is_t_new THEN {} ELSE probe_user(d, user, db_tenant.id)
        is_u_new == found_u = {}
        db_user == IF is_u_new
                   THEN [id |-> NextId(d.users), name |-> user,
                         tenant_id |-> db_tenant.id, password |-> password,
                         suspended |-> FALSE]
                   ELSE found_user(found_u, password)
        found_r == IF is_t_new THEN {} ELSE probe_role(d, role, db_tenant.id)
        is_r_new == found_r = {}
        db_role == IF is_r_new
                   THEN [id |-> NextId(d.roles), name |-> role,
                         tenant_id |-> db_tenant.id]
                   ELSE FirstRow(found_r)
        ps == ensure_perms(d, perms, 1, db_tenant.id, is_t_new,
                  [rows |-> d.perms, mine |-> {}, new |-> {},
                   has_new_perms |-> FALSE])
        staged == [apps |-> d.apps \cup {db_app},
                   tenants |-> d.tenants \cup {db_tenant},
                   users |-> {u \in d.users : u.id # db_user.id} \cup {db_user},
                   roles |-> d.roles \cup {db_role},
                   perms |-> ps.rows,
                   user2role |-> add_role(d.user2role, db_user, db_role),
                   perm2role |-> add_perms(d.perm2role, ps.mine, db_role)]
        committed == constraints_hold(staged)
    IN [ok |-> committed,
        db |-> commit(d, staged),
        app |-> db_app.id, is_app_new |-> is_app_new,
        tenant |-> db_tenant.id, is_t_new |-> is_t_new,
        user |-> db_user.id, is_u_new |-> is_u_new,
        role |-> db_role.id, is_r_new |-> is_r_new,
        perms |-> {p.id : p \in ps.mine}, new_perms |-> ps.new,
        has_new_perms |-> ps.has_new_perms]

(***************************************************************************)
(* Tokens.  A token is the signed payload {sub, scopes, exp}; `sig` tells  *)
(* whether the signature verifies under the configured secret and          *)
(* algorithm.  `uid` is not part of the payload: it remembers the row the  *)
(* token was issued for (0 when it was not issued by login).               *)
(* jwt.encode stores exp as a whole-second timestamp and jwt.decode        *)
(* compares it with the whole-second timestamp of the current time.        *)
(***************************************************************************)
NoSub == "<absent>"
Unix(t) == t \div TicksPerSecond
NoToken == [present |-> FALSE, sig |-> FALSE, sub |-> NoSub, scopes |-> {},
            exp |-> 0, uid |-> 0]

create_access_token_no_exp(data, t) ==
    [present |-> TRUE, sig |-> TRUE, sub |-> data.sub, scopes |-> data.scopes,
     exp |-> Unix(t), uid |-> data.uid]
create_access_token(data, t) ==
    [present |-> TRUE, sig |-> TRUE, sub |-> data.sub, scopes |-> data.scopes,
     exp |-> Unix(t + TokenExpiration * SecondsPerMinute * TicksPerSecond),
     uid |-> data.uid]

jwt_decode_ignore_exp(token, t) == token.sig
jwt_decode(token, t) == token.sig /\ ~(token.exp < Unix(t))

(***************************************************************************)
(* server/dependencies/auth.py: get_current_user, the gate in front of     *)
(* every protected endpoint.  The result is the error auth_error builds    *)
(* (code, and `why` for the log message) or the resolved user.             *)
(***************************************************************************)
Fail(code, why) == [code |-> code, why |-> why, user |-> 0]

never_suspended(user) == FALSE
is_suspended(user) == user.suspended

perms_cover_token_only(req_perm, token_scopes, user_perms) ==
    IF ~(req_perm \subseteq token_scopes) THEN "token-scopes" ELSE "ok"
perms_cover(req_perm, token_scopes, user_perms) ==
    IF ~(req_perm \subseteq token_scopes) THEN "token-scopes"
    ELSE IF ~(req_perm \subseteq user_perms) THEN "user-perms"
    ELSE "ok"

\* "Check that there is data in the token."
check_token_data_scopes_first(token) ==
    IF token.scopes = {} THEN "no-scopes"
    ELSE IF token.sub \in {NoSub, ""} THEN "no-username"
    ELSE "ok"
check_token_data(token) ==
    IF token.sub \in {NoSub, ""} THEN "no-username"
    ELSE IF token.scopes = {} THEN "no-scopes"
    ELSE "ok"

\* The gate of an instance that trusts the tokens it has issued itself.
get_current_user_cached(d, t, token, req_perm) ==
    IF token \in tokens THEN [code |-> "ok", why |-> "", user |-> token.uid]
    ELSE IF ~token.present THEN Fail("not-authenticated", "no-token")
    ELSE IF ~jwt_decode(token, t) THEN Fail("invalid-credentials", "decode")
    ELSE IF check_token_data(token) = "no-username"
    THEN Fail("invalid-credentials", "no-username")
    ELSE IF check_token_data(token) = "no-scopes"
    THEN Fail("no-permission", "no-scopes")
    ELSE LET found == {u \in select_user_by_slug(d, MANAGEMENT_APP, MANAGEMENT_TENANT) :
                          u.name = token.sub}
         IN IF found = {} THEN Fail("invalid-credentials", "no-user")
            ELSE IF Cardinality(found) > 1 THEN Fail("internal", "many-users")
            ELSE LET user == CHOOSE u \in found : TRUE
                     user_perms == get_permissions(d, user)
                     covered == perms_cover(req_perm, token.scopes, user_perms)
                 IN IF is_suspended(user)
                    THEN Fail("invalid-credentials", "suspended")
                    ELSE IF covered # "ok" THEN Fail("no-permission", covered)
                    ELSE [code |-> "ok", why |-> "", user |-> user.id]
get_current_user(d, t, token, req_perm) ==
    IF ~token.present THEN Fail("not-authenticated", "no-token")
    ELSE IF ~jwt_decode(token, t) THEN Fail("invalid-credentials", "decode")
    ELSE IF check_token_data(token) = "no-username"
    THEN Fail("invalid-credentials", "no-username")
    ELSE IF check_token_data(token) = "no-scopes"
    THEN Fail("no-permission", "no-scopes")
    ELSE LET found == {u \in select_user_by_slug(d, MANAGEMENT_APP, MANAGEMENT_TENANT) :
                          u.name = token.sub}
         IN IF found = {} THEN Fail("invalid-credentials", "no-user")
            ELSE IF Cardinality(found) > 1 THEN Fail("internal", "many-users")
            ELSE LET user == CHOOSE u \in found : TRUE
                     user_perms == get_permissions(d, user)
                     covered == perms_cover(req_perm, token.scopes, user_perms)
                 IN IF is_suspended(user)
                    THEN Fail("invalid-credentials", "suspended")
                    ELSE IF covered # "ok" THEN Fail("no-permission", covered)
                    ELSE [code |-> "ok", why |-> "", user |-> user.id]

(***************************************************************************)
(* server/management/auth.py: common_login.  Every rejection is the        *)
(* invalid-credentials error of auth_error.                                *)
(***************************************************************************)
Reject_telling(why) ==
    [code |-> IF why = "no-user" THEN "no-user" ELSE "invalid-credentials",
     why |-> why, token |-> NoToken]
Reject(why) == [code |-> "invalid-credentials", why |-> why, token |-> NoToken]

scopes_allowed_always(requested, user_perms) == TRUE
scopes_allowed(requested, user_perms) ==
    requested = {} \/ requested \subseteq user_perms
granted_scopes_catalog(requested, user_perms) ==
    IF requested = {} THEN CatalogNames ELSE requested
granted_scopes(requested, user_perms) ==
    IF requested = {} THEN user_perms ELSE requested

common_login(d, stg, t, app_slug, tenant, username, password, scopes) ==
    IF ~stg.allow_login THEN Reject("login-disabled")
    ELSE IF username = "" THEN Reject("no-username")
    ELSE LET found == {u \in select_user_by_slug(d, app_slug, tenant) :
                          u.name = username}
         IN IF found = {} THEN Reject("no-user")
            ELSE IF Cardinality(found) > 1
            THEN [code |-> "internal", why |-> "many-users", token |-> NoToken]
            ELSE LET user == CHOOSE u \in found : TRUE
                     user_perms == get_permissions(d, user)
                 IN IF is_suspended(user) THEN Reject("suspended")
                    ELSE IF ~pwd_verify(password, user.password)
                    THEN Reject("password")
                    ELSE IF ~scopes_allowed(scopes, user_perms)
                    THEN Reject("scopes")
                    ELSE [code |-> "ok", why |-> "",
                          token |-> create_access_token(
                              [sub |-> user.name,
                               scopes |-> granted_scopes(scopes, user_perms),
                               uid |-> user.id], t)]

\* The response a caller of the login routes receives, the trace id left
\* out (a fresh uuid4 in every error).  auth_error is called with an empty
\* SecurityScopes and is_auth left at True: status 401, the error
\* invalid-credentials and the header WWW-Authenticate: Bearer.  An
\* exception that is not an auth_error reaches exception_handler: 500.
login_response(r) ==
    IF r.code = "ok"
    THEN [status |-> 200, code |-> "", token |-> r.token, www_authenticate |-> ""]
    ELSE IF r.code = "internal"
    THEN [status |-> 500, code |-> "", token |-> NoToken, www_authenticate |-> ""]
    ELSE [status |-> 401, code |-> r.code, token |-> NoToken,
          www_authenticate |-> "Bearer"]

(***************************************************************************)
(* Deleting a row also deletes its rows in the association tables (the     *)
(* relationships are declared with secondary=).                            *)
(***************************************************************************)
delete_role_row(d, r) ==
    [d EXCEPT !.roles = @ \ {r},
              !.user2role = {x \in @ : x[2] # r.id},
              !.perm2role = {x \in @ : x[2] # r.id}]
delete_perm_row(d, p) ==
    [d EXCEPT !.perms = @ \ {p},
              !.perm2role = {x \in @ : x[1] # p.id}]

(***************************************************************************)
(* The administrative endpoints.  Each handler is a function of the store  *)
(* and the request; its result is the status of the response (ok,          *)
(* not-found 404, conflict 409, internal 500) and the store it leaves.     *)
(* An exception the handler does not catch reaches exception_handler in    *)
(* server/main.py and becomes a 500; the session is closed without a       *)
(* commit.                                                                 *)
(***************************************************************************)
Done(code, d) == [code |-> code, db |-> d]
Committed(d, staged) ==
    IF commit(d, staged) = staged THEN Done("ok", staged) ELSE Done("internal", d)

app_by_slug(d, slug) == {a \in d.apps : a.slug = slug}
WithId(rows, id) == {r \in rows : r.id = id}
SetSlug(rows, id, slug) ==
    {IF r.id = id THEN [r EXCEPT !.slug = slug] ELSE r : r \in rows}
SetName(rows, id, name) ==
    {IF r.id = id THEN [r EXCEPT !.name = name] ELSE r : r \in rows}

\* get_app_id and get_tenant_id resolve the path before the handler runs:
\* scalar_one() raises NoResultFound (answered 404) or MultipleResultsFound
\* (not caught, 500).
path_code(d, app_slug, tn_slug) ==
    LET found == tenant_by_slug(d, app_slug, tn_slug)
    IN IF app_by_slug(d, app_slug) = {} \/ found = {} THEN "not-found"
       ELSE IF Cardinality(found) > 1 THEN "internal"
       ELSE "ok"
get_app_id(d, app_slug) == FirstRow(app_by_slug(d, app_slug)).id
get_tenant_id(d, app_slug, tn_slug) == FirstRow(tenant_by_slug(d, app_slug, tn_slug)).id

\* The probe for a row that already carries the name.
name_never_taken(rows, name) == FALSE
name_taken(rows, name) == \E r \in rows : r.name = name

\* server/management/application.py create_app
create_app_probe(d, slug) ==
    IF app_by_slug(d, slug) # {} THEN "conflict" ELSE "ok"
create_app_write(d, slug) ==
    [d EXCEPT !.apps = @ \cup {[id |-> NextId(d.apps), slug |-> slug]}]
create_app(d, slug) ==
    IF create_app_probe(d, slug) # "ok" THEN Done(create_app_probe(d, slug), d)
    ELSE Committed(d, create_app_write(d, slug))

\* server/management/application.py edit_app
edit_app_probe(d, app_slug, slug) ==
    IF app_by_slug(d, app_slug) = {} THEN "not-found"
    ELSE IF \E a \in d.apps : a.slug = slug /\ a.id # get_app_id(d, app_slug)
    THEN "conflict"
    ELSE "ok"
edit_app_write(d, id, slug) == [d EXCEPT !.apps = SetSlug(@, id, slug)]
edit_app(d, app_slug, slug) ==
    IF edit_app_probe(d, app_slug, slug) # "ok"
    THEN Done(edit_app_probe(d, app_slug, slug), d)
    ELSE Committed(d, edit_app_write(d, get_app_id(d, app_slug), slug))

\* session.delete(app): the relationship Application.tenants has no delete
\* cascade, so the unit of work detaches the tenants of the application by
\* setting their application_id to NULL before it deletes the row.
orphan_tenants(d, app) ==
    [d EXCEPT !.apps = @ \ {app},
              !.tenants = {IF t.application_id = app.id
                           THEN [t EXCEPT !.application_id = Null] ELSE t : t \in @}]
delete_app(d, app_slug) ==
    LET found == app_by_slug(d, app_slug)
    IN IF found = {} THEN Done("not-found", d)
       ELSE Committed(d, orphan_tenants(d, FirstRow(found)))

\* server/tenants/tenant.py create_tenant
create_tenant_probe(d, app_slug, slug) ==
    IF app_by_slug(d, app_slug) = {} THEN "not-found"
    ELSE IF \E t \in d.tenants : /\ t.slug = slug
                                /\ t.application_id = get_app_id(d, app_slug)
    THEN "conflict"
    ELSE "ok"
create_tenant_write(d, app_id, slug) ==
    [d EXCEPT !.tenants = @ \cup
        {[id |-> NextId(d.tenants), slug |-> slug, application_id |-> app_id]}]
create_tenant(d, app_slug, slug) ==
    IF create_tenant_probe(d, app_slug, slug) # "ok"
    THEN Done(create_tenant_probe(d, app_slug, slug), d)
    ELSE Committed(d, create_tenant_write(d, get_app_id(d, app_slug), slug))

\* server/tenants/tenant.py edit_tenant.  The probe for a duplicate is
\* Tenant.slug == data.slug, Tenant.id != result.id
slug_taken(d, result, slug) ==
    \E t \in d.tenants : t.slug = slug /\ t.id # result.id
edit_tenant_probe(d, app_slug, tn_slug, slug) ==
    LET found == tenant_by_slug(d, app_slug, tn_slug)
    IN IF found = {} THEN "not-found"
       ELSE IF Cardinality(found) > 1 THEN "internal"
       ELSE IF slug_taken(d, FirstRow(found), slug) THEN "conflict"
       ELSE "ok"
edit_tenant_write(d, id, slug) == [d EXCEPT !.tenants = SetSlug(@, id, slug)]
edit_tenant(d, app_slug, tn_slug, slug) ==
    IF edit_tenant_probe(d, app_slug, tn_slug, slug) # "ok"
    THEN Done(edit_tenant_probe(d, app_slug, tn_slug, slug), d)
    ELSE Committed(d, edit_tenant_write(d, get_tenant_id(d, app_slug, tn_slug), slug))

\* session.delete(tenant): Tenant.users, Tenant.roles and Tenant.perms have
\* no delete cascade either; their rows get tenant_id NULL.
Orphaned(rows, tenant) ==
    {IF r.tenant_id = tenant.id THEN [r EXCEPT !.tenant_id = Null] ELSE r : r \in rows}
orphan_children(d, tenant) ==
    [d EXCEPT !.tenants = @ \ {tenant},
              !.users = Orphaned(@, tenant),
              !.roles = Orphaned(@, tenant),
              !.perms = Orphaned(@, tenant)]
delete_tenant(d, app_slug, tn_slug) ==
    LET found == tenant_by_slug(d, app_slug, tn_slug)
    IN IF found = {} THEN Done("not-found", d)
       ELSE IF Cardinality(found) > 1 THEN Done("internal", d)
       ELSE Committed(d, orphan_children(d, FirstRow(found)))

\* server/permissions/role.py create_role
create_role_probe(d, app_slug, tn_slug, name) ==
    IF path_code(d, app_slug, tn_slug) # "ok" THEN path_code(d, app_slug, tn_slug)
    ELSE IF name_taken(select_role_by_slug(d, app_slug, tn_slug), name) THEN "conflict"
    ELSE "ok"
create_role_write(d, tn_id, name) ==
    [d EXCEPT !.roles = @ \cup
        {[id |-> NextId(d.roles), name |-> name, tenant_id |-> tn_id]}]
create_role(d, app_slug, tn_slug, name) ==
    IF create_role_probe(d, app_slug, tn_slug, name) # "ok"
    THEN Done(create_role_probe(d, app_slug, tn_slug, name), d)
    ELSE Committed(d, create_role_write(d, get_tenant_id(d, app_slug, tn_slug), name))

\* server/utils.py string_is_valid, the validator of RoleData.name: the
\* value is returned as it came, or ValueError is raised and the request is
\* answered 422 before the handler is entered.
Raised == [raised |-> TRUE]
Returned(v) == [raised |-> FALSE, value |-> v]
string_is_valid(v, max_len) ==
    IF Len(v) = 0 THEN Raised
    ELSE IF Len(v) > max_len THEN Raised
    ELSE Returned(v)
role_is_valid(v) == string_is_valid(v, 255)

(***************************************************************************)
(* server/utils.py slug_is_valid.  A string is kept as its runs: a         *)
(* sequence of records [c, n] standing for the character c repeated n      *)
(* times, so that the strings around the length limits 3 and 255 can be    *)
(* written down.  The characters are one of each kind the validator tells  *)
(* apart: a lowercase ASCII letter, an uppercase letter, a digit, the      *)
(* underscore, the hyphen, a space, a line feed and a lowercase letter     *)
(* outside ASCII.                                                          *)
(***************************************************************************)
Chars == {"a", "A", "1", "_", "-", " ", "\n", "é"}
LowerChars == {"a", "é"}
UpperChars == {"A"}
\* The class [a-z0-9\-_] of slug_regex.
SlugChars == {"a", "1", "_", "-"}

RECURSIVE len(_)
len(v) == IF v = <<>> THEN 0 ELSE Head(v).n + len(Tail(v))

\* str.islower: no uppercase character and at least one lowercase one.
islower(v) ==
    /\ \E i \in 1..Len(v) : v[i].c \in LowerChars
    /\ \A i \in 1..Len(v) : v[i].c \notin UpperChars

\* slug_regex.match(v) with slug_regex = ^[a-z0-9\-_]+$ : in Python, $
\* matches at the end of the string and also just before a line feed that
\* ends the string.
before_final_newline(v) ==
    IF v # <<>> /\ v[Len(v)].c = "\n" /\ v[Len(v)].n = 1
    THEN SubSeq(v, 1, Len(v) - 1)
    ELSE v
all_slug_chars(v) == v # <<>> /\ \A i \in 1..Len(v) : v[i].c \in SlugChars
slug_regex_match(v) == all_slug_chars(v) \/ all_slug_chars(before_final_newline(v))

slug_is_valid(v) ==
    IF ~islower(v) THEN Raised
    ELSE IF len(v) < 3 THEN Raised
    ELSE IF len(v) > 255 THEN Raised
    ELSE IF ~slug_regex_match(v) THEN Raised
    ELSE Returned(v)

\* server/permissions/role.py edit_role
edit_role_probe(d, app_slug, tn_slug, role_id, name) ==
    LET found == WithId(select_role_by_slug(d, app_slug, tn_slug), role_id)
    IN IF found = {} THEN "not-found"
       ELSE IF name_taken(select_role_by_slug(d, app_slug, tn_slug) \ found, name)
       THEN "conflict"
       ELSE "ok"
edit_role_write(d, id, name) == [d EXCEPT !.roles = SetName(@, id, name)]
edit_role(d, app_slug, tn_slug, role_id, name) ==
    IF edit_role_probe(d, app_slug, tn_slug, role_id, name) # "ok"
    THEN Done(edit_role_probe(d, app_slug, tn_slug, role_id, name), d)
    ELSE Committed(d, edit_role_write(d, role_id, name))

\* server/permissions/permission.py create_permission
create_permission_probe(d, app_slug, tn_slug, name) ==
    IF path_code(d, app_slug, tn_slug) # "ok" THEN path_code(d, app_slug, tn_slug)
    ELSE IF name_taken(select_perm_by_slug(d, app_slug, tn_slug), name) THEN "conflict"
    ELSE "ok"
create_permission_write(d, tn_id, name) ==
    [d EXCEPT !.perms = @ \cup
        {[id |-> NextId(d.perms), name |-> name, tenant_id |-> tn_id]}]
create_permission(d, app_slug, tn_slug, name) ==
    IF create_permission_probe(d, app_slug, tn_slug, name) # "ok"
    THEN Done(create_permission_probe(d, app_slug, tn_slug, name), d)
    ELSE Committed(d, create_permission_write(d, get_tenant_id(d, app_slug, tn_slug), name))

\* server/permissions/permission.py edit_permission
edit_permission_probe(d, app_slug, tn_slug, perm_id, name) ==
    LET found == WithId(select_perm_by_slug(d, app_slug, tn_slug), perm_id)
    IN IF found = {} THEN "not-found"
       ELSE IF name_taken(select_perm_by_slug(d, app_slug, tn_slug) \ found, name)
       THEN "conflict"
       ELSE "ok"
edit_permission_write(d, id, name) == [d EXCEPT !.perms = SetName(@, id, name)]
edit_permission(d, app_slug, tn_slug, perm_id, name) ==
    IF edit_permission_probe(d, app_slug, tn_slug, perm_id, name) # "ok"
    THEN Done(edit_permission_probe(d, app_slug, tn_slug, perm_id, name), d)
    ELSE Committed(d, edit_permission_write(d, perm_id, name))

\* server/users/user.py create_user_impl.  After the probe the new row is
\* added; with settings.ep.default_user_role set the lookup of that role
\* reads Role.permissions, an attribute the Role model does not have, and
\* the request ends before the commit.  Without it the row is committed
\* and the return statement then reads the names role and permissions,
\* which were never bound.  Either way the caller is answered 500.
create_user_probe(d, app_slug, tn_slug, name) ==
    IF path_code(d, app_slug, tn_slug) # "ok" THEN path_code(d, app_slug, tn_slug)
    ELSE IF name_taken(select_user_by_slug(d, app_slug, tn_slug), name) THEN "conflict"
    ELSE "ok"
create_user_write(d, tn_id, name) ==
    [d EXCEPT !.users = @ \cup
        {[id |-> NextId(d.users), name |-> name, tenant_id |-> tn_id,
          password |-> NoPassword, suspended |-> FALSE]}]
create_user_commit(d, stg, tn_id, name) ==
    IF stg.default_user_role # "" THEN Done("internal", d)
    ELSE Done("internal", commit(d, create_user_write(d, tn_id, name)))
create_user(d, stg, app_slug, tn_slug, name) ==
    IF create_user_probe(d, app_slug, tn_slug, name) # "ok"
    THEN Done(create_user_probe(d, app_slug, tn_slug, name), d)
    ELSE create_user_commit(d, stg, get_tenant_id(d, app_slug, tn_slug), name)

\* server/users/user.py edit_user
edit_user_probe(d, app_slug, tn_slug, user_id, name) ==
    LET found == WithId(select_user_by_slug(d, app_slug, tn_slug), user_id)
    IN IF found = {} THEN "not-found"
       ELSE IF name_taken(select_user_by_slug(d, app_slug, tn_slug) \ found, name)
       THEN "conflict"
       ELSE "ok"
edit_user_write(d, id, name) == [d EXCEPT !.users = SetName(@, id, name)]
edit_user(d, app_slug, tn_slug, user_id, name) ==
    IF edit_user_probe(d, app_slug, tn_slug, user_id, name) # "ok"
    THEN Done(edit_user_probe(d, app_slug, tn_slug, user_id, name), d)
    ELSE Committed(d, edit_user_write(d, user_id, name))

(***************************************************************************)
(* The endpoints that address a row by its id inside the tenant of the     *)
(* path.  They add no row.                                                 *)
(***************************************************************************)
\* server/permissions/role.py get_role
get_role(d, app_slug, tn_slug, role_id) ==
    IF WithId(select_role_by_slug(d, app_slug, tn_slug), role_id) = {}
    THEN Done("not-found", d)
    ELSE Done("ok", d)

\* server/permissions/role.py delete_role
delete_role(d, app_slug, tn_slug, role_id) ==
    LET found == WithId(select_role_by_slug(d, app_slug, tn_slug), role_id)
    IN IF found = {} THEN Done("not-found", d)
       ELSE Committed(d, delete_role_row(d, FirstRow(found)))

\* server/permissions/permission.py delete_permission
delete_permission(d, app_slug, tn_slug, perm_id) ==
    LET found == WithId(select_perm_by_slug(d, app_slug, tn_slug), perm_id)
    IN IF found = {} THEN Done("not-found", d)
       ELSE Committed(d, delete_perm_row(d, FirstRow(found)))

\* server/users/user.py delete_user
delete_user_row(d, u) ==
    [d EXCEPT !.users = @ \ {u},
              !.user2role = {x \in @ : x[1] # u.id}]
delete_user_unscoped(d, app_slug, tn_slug, user_id) ==
    LET found == WithId(select_user_by_slug(d, app_slug, tn_slug), user_id)
    IN IF found = {}
       THEN Done("not-found", IF WithId(d.users, user_id) = {} THEN d
                              ELSE delete_user_row(d, FirstRow(WithId(d.users, user_id))))
       ELSE Committed(d, delete_user_row(d, FirstRow(found)))
delete_user(d, app_slug, tn_slug, user_id) ==
    LET found == WithId(select_user_by_slug(d, app_slug, tn_slug), user_id)
    IN IF found = {} THEN Done("not-found", d)
       ELSE Committed(d, delete_user_row(d, FirstRow(found)))

\* server/users/roles.py get_user_roles: the roles of the tenant joined
\* with the user id of the path; the user is not looked up, so the answer
\* is a list (maybe empty) in every case.
roles_of_user(d, app_slug, tn_slug, user_id) ==
    {r \in select_role_by_slug(d, app_slug, tn_slug) : <<user_id, r.id>> \in d.user2role}
get_user_roles(d, app_slug, tn_slug, user_id) == Done("ok", d)

\* The context of the association endpoints.  UserContextDep and
\* RoleContextDep are declared over get_tenant_context, so the handler
\* receives a TenantContext: reading context.user or context.role raises
\* AttributeError, which reaches exception_handler (500) with nothing
\* committed.
context_user_unscoped(d, app_slug, tn_slug, user_id) == WithId(d.users, user_id)
context_user(d, app_slug, tn_slug, user_id) == {}
context_role(d, app_slug, tn_slug) == {}

\* server/users/roles.py add_role_to_user
add_role_to_user(d, app_slug, tn_slug, user_id, role_id) ==
    LET role == WithId(select_role_by_slug(d, app_slug, tn_slug), role_id)
        user == context_user(d, app_slug, tn_slug, user_id)
    IN IF role = {} THEN Done("not-found", d)
       ELSE IF user = {} THEN Done("internal", d)
       ELSE Committed(d, [d EXCEPT !.user2role =
                @ \cup {<<FirstRow(user).id, FirstRow(role).id>>}])

\* session.scalars() gives a ScalarResult, which is read once: the handlers
\* iterate it to compute `missing`, and a second iteration yields nothing.
read_again(rows) == {}

\* server/users/roles.py change_user_roles
change_user_roles(d, app_slug, tn_slug, user_id, data) ==
    LET roles == {r \in select_role_by_slug(d, app_slug, tn_slug) : r.id \in data}
        missing == data \ {r.id : r \in roles}
        user == context_user(d, app_slug, tn_slug, user_id)
    IN IF missing # {} THEN Done("not-found", d)
       ELSE IF user = {} THEN Done("internal", d)
       ELSE Committed(d, [d EXCEPT !.user2role =
                {x \in @ : x[1] # FirstRow(user).id}
                    \cup {<<FirstRow(user).id, r.id>> : r \in read_again(roles)}])

\* server/permissions/role_perm.py change_role_permissions
change_role_permissions(d, app_slug, tn_slug, data) ==
    LET permissions == {p \in select_perm_by_slug(d, app_slug, tn_slug) : p.id \in data}
        missing == data \ {p.id : p \in permissions}
        role == context_role(d, app_slug, tn_slug)
    IN IF missing # {} THEN Done("not-found", d)
       ELSE IF role = {} THEN Done("internal", d)
       ELSE Committed(d, [d EXCEPT !.perm2role =
                {x \in @ : x[2] # FirstRow(role).id}
                    \cup {<<p.id, FirstRow(role).id>> : p \in read_again(permissions)}])

\* server/users/roles.py remove_roles_from_user: context.user.id is read
\* while the query is built, before anything else.
remove_roles_from_user(d, app_slug, tn_slug, user_id, data) ==
    LET user == context_user(d, app_slug, tn_slug, user_id)
        roles == {r \in select_role_by_slug(d, app_slug, tn_slug) :
                    /\ r.id \in data
                    /\ \E u \in user : <<u.id, r.id>> \in d.user2role}
        missing == data \ {r.id : r \in roles}
    IN IF user = {} THEN Done("internal", d)
       ELSE IF missing # {} THEN Done("not-found", d)
       ELSE Committed(d, [d EXCEPT !.user2role =
                @ \ {<<FirstRow(user).id, r.id>> : r \in read_again(roles)}])

\* server/permissions/role_perm.py add_permission_to_role
add_permission_to_role(d, app_slug, tn_slug, perm_id) ==
    LET permission == WithId(select_perm_by_slug(d, app_slug, tn_slug), perm_id)
        role == context_role(d, app_slug, tn_slug)
    IN IF permission = {} THEN Done("not-found", d)
       ELSE IF role = {} THEN Done("internal", d)
       ELSE Committed(d, [d EXCEPT !.perm2role =
                @ \cup {<<FirstRow(permission).id, FirstRow(role).id>>}])

\* server/permissions/role_perm.py remove_permissions_from_role:
\* context.role.id is read while the query is built.
remove_permissions_from_role(d, app_slug, tn_slug, data) ==
    LET role == context_role(d, app_slug, tn_slug)
        perms == {p \in select_perm_by_slug(d, app_slug, tn_slug) :
                    /\ p.id \in data
                    /\ \E r \in role : <<p.id, r.id>> \in d.perm2role}
        missing == data \ {p.id : p \in perms}
    IN IF role = {} THEN Done("internal", d)
       ELSE IF missing # {} THEN Done("not-found", d)
       ELSE Committed(d, [d EXCEPT !.perm2role =
                @ \ {<<p.id, FirstRow(role).id>> : p \in read_again(perms)}])

(***************************************************************************)
(* Two requests in flight.  Each request has its own session: it runs the  *)
(* probe of its handler against the store as it is then, and later         *)
(* commits what it prepared against the store as it is then.  A request is *)
(* the record of its endpoint (op), its path and its body.                 *)
(***************************************************************************)
Req(op, app_slug, tn_slug, id, name) ==
    [op |-> op, app_slug |-> app_slug, tn_slug |-> tn_slug, id |-> id, name |-> name]

\* The permission the route of the endpoint declares.
req_perm_of(r) ==
    CASE r.op = "create_app" -> {"app:c"}
      [] r.op = "edit_app" -> {"app:u"}
      [] r.op = "create_tenant" -> {"tenant:c"}
      [] r.op = "edit_tenant" -> {"tenant:u"}
      [] r.op = "create_permission" -> {"perm:c"}
      [] r.op = "edit_permission" -> {"perm:u"}
      [] r.op = "create_user" -> {"user:c"}
      [] r.op = "edit_user" -> {"user:u"}
      [] OTHER -> {}

\* The part of the handler up to and including the probe for a duplicate.
probe_of(d, r) ==
    CASE r.op = "create_app" -> create_app_probe(d, r.name)
      [] r.op = "edit_app" -> edit_app_probe(d, r.app_slug, r.name)
      [] r.op = "create_tenant" -> create_tenant_probe(d, r.app_slug, r.name)
      [] r.op = "edit_tenant" -> edit_tenant_probe(d, r.app_slug, r.tn_slug, r.name)
      [] r.op = "create_role" -> create_role_probe(d, r.app_slug, r.tn_slug, r.name)
      [] r.op = "edit_role" -> edit_role_probe(d, r.app_slug, r.tn_slug, r.id, r.name)
      [] r.op = "create_permission" ->
            create_permission_probe(d, r.app_slug, r.tn_slug, r.name)
      [] r.op = "edit_permission" ->
            edit_permission_probe(d, r.app_slug, r.tn_slug, r.id, r.name)
      [] r.op = "create_user" -> create_user_probe(d, r.app_slug, r.tn_slug, r.name)
      [] r.op = "edit_user" -> edit_user_probe(d, r.app_slug, r.tn_slug, r.id, r.name)

\* The row the request holds once its probe has passed: the parent of the
\* row it will insert, or the row it will update.
located_of(d, r) ==
    CASE r.op = "create_app" -> Null
      [] r.op \in {"edit_app", "create_tenant"} -> get_app_id(d, r.app_slug)
      [] r.op \in {"edit_tenant", "create_role", "create_permission", "create_user"} ->
            get_tenant_id(d, r.app_slug, r.tn_slug)
      [] OTHER -> r.id

\* The rest of the handler: the insert or update and the commit.
write_of(d, stg, r, id) ==
    CASE r.op = "create_app" -> Committed(d, create_app_write(d, r.name))
      [] r.op = "edit_app" -> Committed(d, edit_app_write(d, id, r.name))
      [] r.op = "create_tenant" -> Committed(d, create_tenant_write(d, id, r.name))
      [] r.op = "edit_tenant" -> Committed(d, edit_tenant_write(d, id, r.name))
      [] r.op = "create_role" -> Committed(d, create_role_write(d, id, r.name))
      [] r.op = "edit_role" -> Committed(d, edit_role_write(d, id, r.name))
      [] r.op = "create_permission" -> Committed(d, create_permission_write(d, id, r.name))
      [] r.op = "edit_permission" -> Committed(d, edit_permission_write(d, id, r.name))
      [] r.op = "create_user" -> create_user_commit(d, stg, id, r.name)
      [] r.op = "edit_user" -> Committed(d, edit_user_write(d, id, r.name))

(***************************************************************************)
(* Inputs.                                                                 *)
(***************************************************************************)
FarFuture == Unix(MaxTime) + 1
Signed(sub, scopes) ==
    [present |-> TRUE, sig |-> TRUE, sub |-> sub, scopes |-> scopes,
     exp |-> FarFuture, uid |-> 0]
AdminToken == Signed(super_user, CatalogNames)
\* Tokens a caller may present besides the ones login handed out: none, one
\* that does not verify, one that expired, and validly signed payloads (as
\* the token_factory of the test-suite builds them).
CraftedTokens ==
    {NoToken,
     [Signed("bob", {"version:r"}) EXCEPT !.sig = FALSE],
     [Signed("bob", {"version:r"}) EXCEPT !.exp = -1],
     Signed(NoSub, {"version:r"}),
     Signed("", {}),
     Signed(super_user, {}),
     Signed("ghost", {"version:r"}),
     Signed("eve", {"version:r"}),
     AdminToken}
ReqSets == {{}, {"version:r"}, {"version:r", "perm:d"}}
LoginTargets == {<<MANAGEMENT_APP, MANAGEMENT_TENANT>>, <<"other", "tn">>}
LoginNames == {"", super_user, "bob", "eve", "sso"}
LoginPasswords == {super_password, "pw"}
LoginScopes == {{}, {"version:r"}}
RoleIds == 1..4
PermIds == {1, Len(MANAGEMENT_PERMS)}

\* What the administrative requests name, and how far the row ids of the
\* store may grow.
MaxNewRows == 2
Rows(d) ==
    Cardinality(d.apps) + Cardinality(d.tenants) + Cardinality(d.users)
        + Cardinality(d.roles) + Cardinality(d.perms)
Room(d, n) ==
    /\ Rows(d) + n <= 4 + Len(MANAGEMENT_PERMS) + MaxNewRows
    /\ \A r \in d.apps \cup d.tenants \cup d.users \cup d.roles :
          r.id + n <= 1 + MaxNewRows
    /\ \A p \in d.perms : p.id + n <= Len(MANAGEMENT_PERMS) + MaxNewRows
InBounds(d) == Room(d, 0)
AppSlugs == {MANAGEMENT_APP, "other"}
TenantSlugs == {MANAGEMENT_TENANT, "tn"}
Targets == {<<MANAGEMENT_APP, MANAGEMENT_TENANT>>, <<MANAGEMENT_APP, "tn">>}
RoleNames == {super_role, "guest"}
PermNames == {"version:r", "x:r"}
UserNames == {super_user, "bob"}
NewIds == 1..2
EditPermIds == {1, Len(MANAGEMENT_PERMS) + 1}

(***************************************************************************)
(* Actions.  Requests are served one at a time: last holds the request   *)
(* being answered and Respond ends it.                                     *)
(***************************************************************************)
Idle == last.op = "none"

\* server/main.py lifespan: the bootstrap runs before the application
\* yields; if it raises, the start-up fails.  `second` marks a run that
\* directly follows a successful run with the same arguments, `before` is
\* the store it started from.
startup_always(r) == TRUE
startup_completes(r) == r.ok
Lifespan(salt) ==
    LET r == init_db(db, MANAGEMENT_APP, MANAGEMENT_TENANT, MANAGEMENT_PERMS,
                     super_user, pwd_hash(super_password, salt), super_role)
    IN /\ Idle \/ last.op = "init_db"
       /\ db' = r.db
       /\ serving' = startup_completes(r)
       /\ last' = [op |-> "init_db", salt |-> salt, before |-> db, result |-> r,
                   second |-> /\ last.op = "init_db"
                              /\ last.salt = salt
                              /\ last.result.ok]
       /\ UNCHANGED <<settings, now, tokens>>

\* POST /token and POST /token/{app_slug}/{tenant}
Login(target, username, password, scopes) ==
    LET r == common_login(db, settings, now, target[1], target[2],
                          username, password, scopes)
    IN /\ Idle
       /\ serving
       /\ r.code = "ok" => (r.token \in tokens \/ Cardinality(tokens) < MaxTokens)
       /\ tokens' = IF r.code = "ok" THEN tokens \cup {r.token} ELSE tokens
       /\ last' = [op |-> "login", target |-> target, username |-> username,
                   password |-> password, scopes |-> scopes,
                   code |-> r.code, why |-> r.why, token |-> r.token]
       /\ UNCHANGED <<db, settings, serving, now>>

\* A request to an endpoint that declares the permissions req_perm
\* (CoreSecurity(...), or Depends(get_current_user) with none) and does
\* not write, such as GET /mng/version.
Request(token, req_perm) ==
    LET r == get_current_user(db, now, token, req_perm)
    IN /\ Idle
       /\ serving
       /\ last' = [op |-> "request", token |-> token, req_perm |-> req_perm,
                   code |-> r.code, why |-> r.why, user |-> r.user]
       /\ UNCHANGED <<db, settings, serving, now, tokens>>

\* DELETE /roles/{app_slug}/{tn_slug}/{role_id}; the router depends on
\* get_current_user with no permissions.
DeleteRole(token, app_slug, tn_slug, role_id) ==
    LET g == get_current_user(db, now, token, {})
        found == {r \in select_role_by_slug(db, app_slug, tn_slug) : r.id = role_id}
        code == IF g.code # "ok" THEN g.code
                ELSE IF found = {} THEN "no-role" ELSE "ok"
    IN /\ Idle
       /\ serving
       /\ db' = IF code = "ok" THEN delete_role_row(db, CHOOSE r \in found : TRUE)
                ELSE db
       /\ last' = [op |-> "delete_role", code |-> code, id |-> role_id]
       /\ UNCHANGED <<settings, serving, now, tokens>>

\* DELETE /perm/{app_slug}/{tn_slug}/{perm_id}, behind CoreSecurity("perm:d")
DeletePermission(token, app_slug, tn_slug, perm_id) ==
    LET g == get_current_user(db, now, token, {"perm:d"})
        found == {p \in select_perm_by_slug(db, app_slug, tn_slug) : p.id = perm_id}
        code == IF g.code # "ok" THEN g.code
                ELSE IF found = {} THEN "no-perm" ELSE "ok"
    IN /\ Idle
       /\ serving
       /\ db' = IF code = "ok" THEN delete_perm_row(db, CHOOSE p \in found : TRUE)
                ELSE db
       /\ last' = [op |-> "delete_permission", code |-> code, id |-> perm_id]
       /\ UNCHANGED <<settings, serving, now, tokens>>

\* The administrative endpoints: the gate of the route runs first, then
\* the handler; the response is kept in last until Respond.
Answer(op, token, req_perm, args, r) ==
    LET g == get_current_user(db, now, token, req_perm)
        out == IF g.code # "ok" THEN Done(g.code, db) ELSE r
    IN /\ Idle
       /\ serving
       /\ InBounds(out.db)
       /\ db' = out.db
       /\ last' = [op |-> op, token |-> token, args |-> args,
                   code |-> out.code, before |-> db]
       /\ UNCHANGED <<settings, serving, now, tokens>>
\* The same for the endpoints that add no row.
Serve(op, token, req_perm, args, r) ==
    LET g == get_current_user(db, now, token, req_perm)
        out == IF g.code # "ok" THEN Done(g.code, db) ELSE r
    IN /\ Idle
       /\ serving
       /\ db' = out.db
       /\ last' = [op |-> op, token |-> token, args |-> args,
                   code |-> out.code, before |-> db]
       /\ UNCHANGED <<settings, serving, now, tokens>>

\* GET /roles/{app_slug}/{tn_slug}/{role_id}
GetRole(token, app_slug, tn_slug, role_id) ==
    Serve("get_role", token, {},
          [app_slug |-> app_slug, tn_slug |-> tn_slug, id |-> role_id],
          get_role(db, app_slug, tn_slug, role_id))
\* DELETE /roles/{app_slug}/{tn_slug}/{role_id}, recorded with the store as
\* it was before the request.
DeleteRoleAt(token, app_slug, tn_slug, role_id) ==
    Serve("delete_role", token, {},
          [app_slug |-> app_slug, tn_slug |-> tn_slug, id |-> role_id],
          delete_role(db, app_slug, tn_slug, role_id))
\* DELETE /perm/{app_slug}/{tn_slug}/{perm_id}, recorded likewise.
DeletePermissionAt(token, app_slug, tn_slug, perm_id) ==
    Serve("delete_permission", token, {"perm:d"},
          [app_slug |-> app_slug, tn_slug |-> tn_slug, id |-> perm_id],
          delete_permission(db, app_slug, tn_slug, perm_id))
\* DELETE /users/{app_slug}/{tn_slug}/{user_id}
DeleteUser(token, app_slug, tn_slug, user_id) ==
    Serve("delete_user", token, {"user:d"},
          [app_slug |-> app_slug, tn_slug |-> tn_slug, id |-> user_id],
          delete_user(db, app_slug, tn_slug, user_id))
\* POST /roles/.., /users/.., /perm/.. with an id: a rename that adds no row.
RenameRole(token, app_slug, tn_slug, role_id, name) ==
    Serve("edit_role", token, {},
          [app_slug |-> app_slug, tn_slug |-> tn_slug, id |-> role_id, name |-> name],
          IF role_is_valid(name).raised THEN Done("validation", db)
          ELSE edit_role(db, app_slug, tn_slug, role_id, role_is_valid(name).value))
RenameUser(token, app_slug, tn_slug, user_id, name) ==
    Serve("edit_user", token, {"user:u"},
          [app_slug |-> app_slug, tn_slug |-> tn_slug, id |-> user_id, name |-> name],
          edit_user(db, app_slug, tn_slug, user_id, name))
RenamePermission(token, app_slug, tn_slug, perm_id, name) ==
    Serve("edit_permission", token, {"perm:u"},
          [app_slug |-> app_slug, tn_slug |-> tn_slug, id |-> perm_id, name |-> name],
          edit_permission(db, app_slug, tn_slug, perm_id, name))
\* GET /users/{app_slug}/{tn_slug}/{user_id}/roles/
GetUserRoles(token, app_slug, tn_slug, user_id) ==
    Serve("get_user_roles", token, {},
          [app_slug |-> app_slug, tn_slug |-> tn_slug, user_id |-> user_id],
          get_user_roles(db, app_slug, tn_slug, user_id))
\* PUT /users/{app_slug}/{tn_slug}/{user_id}/roles/{role_id}
AddRoleToUser(token, app_slug, tn_slug, user_id, role_id) ==
    Serve("add_role_to_user", token, {},
          [app_slug |-> app_slug, tn_slug |-> tn_slug, user_id |-> user_id,
           id |-> role_id],
          add_role_to_user(db, app_slug, tn_slug, user_id, role_id))
\* POST /users/{app_slug}/{tn_slug}/{user_id}/roles/
ChangeUserRoles(token, app_slug, tn_slug, user_id, data) ==
    Serve("change_user_roles", token, {},
          [app_slug |-> app_slug, tn_slug |-> tn_slug, user_id |-> user_id,
           data |-> data],
          change_user_roles(db, app_slug, tn_slug, user_id, data))
\* DELETE /users/{app_slug}/{tn_slug}/{user_id}/roles/
RemoveRolesFromUser(token, app_slug, tn_slug, user_id, data) ==
    Serve("remove_roles_from_user", token, {},
          [app_slug |-> app_slug, tn_slug |-> tn_slug, user_id |-> user_id,
           data |-> data],
          remove_roles_from_user(db, app_slug, tn_slug, user_id, data))
\* PUT /roles/{app_slug}/{tn_slug}/permission/{perm_id}
AddPermissionToRole(token, app_slug, tn_slug, perm_id) ==
    Serve("add_permission_to_role", token, {},
          [app_slug |-> app_slug, tn_slug |-> tn_slug, id |-> perm_id],
          add_permission_to_role(db, app_slug, tn_slug, perm_id))
\* POST /roles/{app_slug}/{tn_slug}/permission/
ChangeRolePermissions(token, app_slug, tn_slug, data) ==
    Serve("change_role_permissions", token, {},
          [app_slug |-> app_slug, tn_slug |-> tn_slug, data |-> data],
          change_role_permissions(db, app_slug, tn_slug, data))
\* DELETE /roles/{app_slug}/{tn_slug}/permission/
RemovePermissionsFromRole(token, app_slug, tn_slug, data) ==
    Serve("remove_permissions_from_role", token, {},
          [app_slug |-> app_slug, tn_slug |-> tn_slug, data |-> data],
          remove_permissions_from_role(db, app_slug, tn_slug, data))

\* PUT /mng/apps/
CreateApp(token, slug) ==
    Answer("create_app", token, {"app:c"}, [slug |-> slug], create_app(db, slug))
\* POST /mng/apps/{app_slug}
EditApp(token, app_slug, slug) ==
    Answer("edit_app", token, {"app:u"}, [app_slug |-> app_slug, slug |-> slug],
           edit_app(db, app_slug, slug))
\* DELETE /mng/apps/{app_slug}
DeleteApp(token, app_slug) ==
    Answer("delete_app", token, {"app:d"}, [app_slug |-> app_slug],
           delete_app(db, app_slug))
\* PUT /tenants/{app_slug}/
CreateTenant(token, app_slug, slug) ==
    Answer("create_tenant", token, {"tenant:c"},
           [app_slug |-> app_slug, slug |-> slug],
           create_tenant(db, app_slug, slug))
\* POST /tenants/{app_slug}/{tn_slug}
EditTenant(token, app_slug, tn_slug, slug) ==
    Answer("edit_tenant", token, {"tenant:u"},
           [app_slug |-> app_slug, tn_slug |-> tn_slug, slug |-> slug],
           edit_tenant(db, app_slug, tn_slug, slug))
\* DELETE /tenants/{app_slug}/{tn_slug}
DeleteTenant(token, app_slug, tn_slug) ==
    Answer("delete_tenant", token, {"tenant:d"},
           [app_slug |-> app_slug, tn_slug |-> tn_slug],
           delete_tenant(db, app_slug, tn_slug))
\* PUT /roles/{app_slug}/{tn_slug}/
CreateRole(token, app_slug, tn_slug, name) ==
    Answer("create_role", token, {},
           [app_slug |-> app_slug, tn_slug |-> tn_slug, name |-> name],
           create_role(db, app_slug, tn_slug, name))
\* POST /roles/{app_slug}/{tn_slug}/{role_id}
EditRole(token, app_slug, tn_slug, role_id, name) ==
    Answer("edit_role", token, {},
           [app_slug |-> app_slug, tn_slug |-> tn_slug, id |-> role_id, name |-> name],
           edit_role(db, app_slug, tn_slug, role_id, name))
\* PUT /perm/{app_slug}/{tn_slug}/
CreatePermission(token, app_slug, tn_slug, name) ==
    Answer("create_permission", token, {"perm:c"},
           [app_slug |-> app_slug, tn_slug |-> tn_slug, name |-> name],
           create_permission(db, app_slug, tn_slug, name))
\* POST /perm/{app_slug}/{tn_slug}/{perm_id}
EditPermission(token, app_slug, tn_slug, perm_id, name) ==
    Answer("edit_permission", token, {"perm:u"},
           [app_slug |-> app_slug, tn_slug |-> tn_slug, id |-> perm_id, name |-> name],
           edit_permission(db, app_slug, tn_slug, perm_id, name))
\* PUT /users/{app_slug}/{tn_slug}/
CreateUser(token, app_slug, tn_slug, name) ==
    Answer("create_user", token, {"user:c"},
           [app_slug |-> app_slug, tn_slug |-> tn_slug, name |-> name],
           create_user(db, settings, app_slug, tn_slug, name))
\* POST /users/{app_slug}/{tn_slug}/{user_id}
EditUser(token, app_slug, tn_slug, user_id, name) ==
    Answer("edit_user", token, {"user:u"},
           [app_slug |-> app_slug, tn_slug |-> tn_slug, id |-> user_id, name |-> name],
           edit_user(db, app_slug, tn_slug, user_id, name))
\* The middleware add_process_time_header wraps each request in
\* "async with async_session() as session".  Calling the session maker
\* builds a session that no open request holds; leaving the block closes
\* it, whichever way the block is left: the response of the handler, the
\* response of an error, or an exception on its way to exception_handler.
new_session(open) == IF open = {} THEN 1 ELSE MaxOf(open) + 1
aexit_on_return(code) == code # "internal"
aexit(code) == TRUE

\* Two requests arrive, each enters the middleware and passes the gate of
\* its route.
RaceBegin(token, r1, r2) ==
    /\ Idle
    /\ serving
    /\ Room(db, 2)
    /\ get_current_user(db, now, token, req_perm_of(r1)).code = "ok"
    /\ get_current_user(db, now, token, req_perm_of(r2)).code = "ok"
    /\ last' = [op |-> "race", reqs |-> <<r1, r2>>, at |-> <<"arrived", "arrived">>,
                ids |-> <<Null, Null>>, probed |-> <<FALSE, FALSE>>, before |-> db,
                session |-> <<new_session({}), new_session({new_session({})})>>,
                closed |-> <<FALSE, FALSE>>]
    /\ UNCHANGED <<db, settings, serving, now, tokens>>

\* Request i runs its handler up to the probe.
RaceProbe(i) ==
    LET code == probe_of(db, last.reqs[i])
    IN /\ last.op = "race"
       /\ last.at[i] = "arrived"
       /\ last' = [last EXCEPT
                     !.at[i] = IF code = "ok" THEN "probed" ELSE code,
                     !.probed[i] = (code = "ok"),
                     !.ids[i] = IF code = "ok" THEN located_of(db, last.reqs[i]) ELSE Null]
       /\ UNCHANGED <<db, settings, serving, now, tokens>>

\* Request i writes and commits.
RaceCommit(i) ==
    LET r == write_of(db, settings, last.reqs[i], last.ids[i])
    IN /\ last.op = "race"
       /\ last.at[i] = "probed"
       /\ db' = r.db
       /\ last' = [last EXCEPT !.at[i] = r.code]
       /\ UNCHANGED <<settings, serving, now, tokens>>

\* Request i has its outcome and leaves the block of the middleware.
RaceExit(i) ==
    /\ last.op = "race"
    /\ last.at[i] \notin {"arrived", "probed"}
    /\ ~last.closed[i]
    /\ last' = [last EXCEPT !.closed[i] = aexit(last.at[i])]
    /\ UNCHANGED <<db, settings, serving, now, tokens>>

\* The response leaves; the middleware has returned by then, so the
\* session of the request is closed.
Respond ==
    /\ ~Idle
    /\ last.op = "race" => \A i \in 1..2 : last.closed[i]
    /\ last' = [op |-> "none"]
    /\ UNCHANGED <<db, settings, serving, now, tokens>>

\* Time passes.
Tick ==
    /\ Idle
    /\ now < MaxTime
    /\ now' = now + 1
    /\ UNCHANGED <<db, settings, serving, tokens, last>>

Init ==
    /\ db \in {EmptyDb, SeedDb, TakenDb}
    /\ settings \in {[allow_login |-> b, default_user_role |-> ""] : b \in BOOLEAN}
    /\ serving = FALSE
    /\ now = 0
    /\ tokens = {}
    /\ last = [op |-> "none"]

Startup == \E salt \in Salts : Lifespan(salt)
Logins ==
    \E target \in LoginTargets, username \in LoginNames,
       password \in LoginPasswords, scopes \in LoginScopes :
         Login(target, username, password, scopes)
Requests ==
    \E token \in tokens \cup CraftedTokens, req_perm \in ReqSets :
         Request(token, req_perm)
RoleDeletes ==
    \E token \in tokens \cup {AdminToken}, role_id \in RoleIds :
         DeleteRole(token, MANAGEMENT_APP, MANAGEMENT_TENANT, role_id)
PermissionDeletes ==
    \E token \in tokens \cup {AdminToken}, perm_id \in PermIds :
         DeletePermission(token, MANAGEMENT_APP, MANAGEMENT_TENANT, perm_id)

\* The store, login and the gate at one instant.
Next ==
    \/ Startup
    \/ Logins
    \/ Requests
    \/ RoleDeletes
    \/ PermissionDeletes
    \/ Respond

Spec == Init /\ [][Next]_vars

\* Login and the gate while time passes, on a store that only start-up
\* writes.
NextClock ==
    \/ Startup
    \/ Logins
    \/ Requests
    \/ Tick
    \/ Respond

SpecClock == Init /\ [][NextClock]_vars

\* The administrative endpoints, one request at a time, on a store that
\* start-up filled.
InitAdmin ==
    /\ db = EmptyDb
    /\ settings = [allow_login |-> TRUE, default_user_role |-> ""]
    /\ serving = FALSE
    /\ now = 0
    /\ tokens = {}
    /\ last = [op |-> "none"]

AppCreates == \E slug \in AppSlugs : CreateApp(AdminToken, slug)
AppEdits == \E app_slug \in AppSlugs, slug \in AppSlugs : EditApp(AdminToken, app_slug, slug)
AppDeletes == \E token \in {AdminToken}, app_slug \in AppSlugs : DeleteApp(token, app_slug)
TenantCreates ==
    \E app_slug \in AppSlugs, slug \in TenantSlugs :
        CreateTenant(AdminToken, app_slug, slug)
TenantEdits ==
    \E app_slug \in AppSlugs, tn_slug \in TenantSlugs, slug \in TenantSlugs :
        EditTenant(AdminToken, app_slug, tn_slug, slug)
TenantDeletes ==
    \E app_slug \in AppSlugs, tn_slug \in TenantSlugs :
        DeleteTenant(AdminToken, app_slug, tn_slug)
RoleCreates ==
    \E target \in Targets, name \in RoleNames :
        CreateRole(AdminToken, target[1], target[2], name)
RoleEdits ==
    \E target \in Targets, role_id \in NewIds, name \in RoleNames :
        EditRole(AdminToken, target[1], target[2], role_id, name)
PermissionCreates ==
    \E target \in Targets, name \in PermNames :
        CreatePermission(AdminToken, target[1], target[2], name)
PermissionEdits ==
    \E target \in Targets, perm_id \in EditPermIds, name \in PermNames :
        EditPermission(AdminToken, target[1], target[2], perm_id, name)
UserCreates ==
    \E target \in Targets, name \in UserNames :
        CreateUser(AdminToken, target[1], target[2], name)
UserEdits ==
    \E target \in Targets, user_id \in NewIds, name \in UserNames :
        EditUser(AdminToken, target[1], target[2], user_id, name)
NextAdmin ==
    \/ Startup
    \/ AppCreates
    \/ AppEdits
    \/ AppDeletes
    \/ TenantCreates
    \/ TenantEdits
    \/ TenantDeletes
    \/ RoleCreates
    \/ RoleEdits
    \/ PermissionCreates
    \/ PermissionEdits
    \/ UserCreates
    \/ UserEdits
    \/ Respond

SpecAdmin == InitAdmin /\ [][NextAdmin]_vars

\* Pairs of requests for the same name in the same scope: two creations,
\* or a creation and the renaming of a row that exists.
RacePairs ==
    LET a == MANAGEMENT_APP
        t == MANAGEMENT_TENANT
    IN {<<Req("create_app", "", "", Null, "other"), Req("create_app", "", "", Null, "other")>>,
        <<Req("create_app", "", "", Null, "other"), Req("edit_app", a, "", Null, "other")>>,
        <<Req("create_tenant", a, "", Null, "tn"), Req("create_tenant", a, "", Null, "tn")>>,
        <<Req("create_tenant", a, "", Null, "tn"), Req("edit_tenant", a, t, Null, "tn")>>,
        <<Req("create_role", a, t, Null, "guest"), Req("create_role", a, t, Null, "guest")>>,
        <<Req("create_role", a, t, Null, "guest"), Req("edit_role", a, t, 1, "guest")>>,
        <<Req("create_permission", a, t, Null, "x:r"), Req("create_permission", a, t, Null, "x:r")>>,
        <<Req("create_permission", a, t, Null, "x:r"), Req("edit_permission", a, t, 1, "x:r")>>,
        <<Req("create_user", a, t, Null, "bob"), Req("create_user", a, t, Null, "bob")>>,
        <<Req("create_user", a, t, Null, "bob"), Req("edit_user", a, t, 1, "bob")>>}

InitRace ==
    /\ db = EmptyDb
    /\ settings \in {[allow_login |-> TRUE, default_user_role |-> r] :
                        r \in {"", super_role}}
    /\ serving = FALSE
    /\ now = 0
    /\ tokens = {}
    /\ last = [op |-> "none"]

Races == \E pair \in RacePairs : RaceBegin(AdminToken, pair[1], pair[2])
Probes == \E i \in 1..2 : RaceProbe(i)
Commits == \E i \in 1..2 : RaceCommit(i)
Exits == \E i \in 1..2 : RaceExit(i)

\* Start-up, then pairs of administrative requests that overlap.
NextRace ==
    \/ Startup
    \/ Races
    \/ Probes
    \/ Commits
    \/ Exits
    \/ Respond

SpecRace == InitRace /\ [][NextRace]_vars

\* The same, with the event loop running every request that can take a
\* step: no coroutine that is ready waits for ever.
SpecRaceFair ==
    /\ InitRace /\ [][NextRace]_vars
    /\ WF_vars(Probes)
    /\ WF_vars(Commits)
    /\ WF_vars(Exits)
    /\ WF_vars(Respond)

\* The endpoints that address rows by id, on stores with two tenants: the
\* path names the management tenant or the other application's tenant,
\* the ids name rows of either.
AssocTokens == {AdminToken, NoToken, Signed("bob", {"version:r"})}
AssocRoleNames == {"aide", super_role, ""}
AssocPaths == {<<MANAGEMENT_APP, MANAGEMENT_TENANT>>, <<"other", MANAGEMENT_TENANT>>}
AssocRoleIds == {2, 3}
AssocUserIds == {2, 4}
AssocPermIds == {1, 2}
AssocRoleSets == {{2}, {3}, {2, 3}}
AssocPermSets == {{1}, {2}, {1, 2}}

InitAssoc ==
    /\ db \in {SeedDb, TwinDb}
    /\ settings = [allow_login |-> TRUE, default_user_role |-> ""]
    /\ serving = FALSE
    /\ now = 0
    /\ tokens = {}
    /\ last = [op |-> "none"]

RoleReads ==
    \E token \in AssocTokens, path \in AssocPaths, role_id \in AssocRoleIds :
        GetRole(token, path[1], path[2], role_id)
RoleRenames ==
    \E token \in AssocTokens, role_id \in AssocRoleIds, name \in AssocRoleNames :
        RenameRole(token, MANAGEMENT_APP, MANAGEMENT_TENANT, role_id, name)
UserRenames ==
    \E token \in AssocTokens, user_id \in AssocUserIds :
        RenameUser(token, MANAGEMENT_APP, MANAGEMENT_TENANT, user_id, "al")
PermissionRenames ==
    \E token \in AssocTokens, perm_id \in AssocPermIds :
        RenamePermission(token, MANAGEMENT_APP, MANAGEMENT_TENANT, perm_id, "y:r")
RoleDeletesAt ==
    \E token \in AssocTokens, role_id \in AssocRoleIds :
        DeleteRoleAt(token, MANAGEMENT_APP, MANAGEMENT_TENANT, role_id)
UserDeletes ==
    \E token \in AssocTokens, user_id \in AssocUserIds :
        DeleteUser(token, MANAGEMENT_APP, MANAGEMENT_TENANT, user_id)
PermissionDeletesAt ==
    \E token \in AssocTokens, perm_id \in AssocPermIds :
        DeletePermissionAt(token, MANAGEMENT_APP, MANAGEMENT_TENANT, perm_id)
UserRoleReads ==
    \E token \in AssocTokens, path \in AssocPaths, user_id \in AssocUserIds :
        GetUserRoles(token, path[1], path[2], user_id)
UserRoleAdds ==
    \E token \in AssocTokens, path \in AssocPaths,
       user_id \in AssocUserIds, role_id \in AssocRoleIds :
        AddRoleToUser(token, path[1], path[2], user_id, role_id)
UserRoleChanges ==
    \E token \in AssocTokens, path \in AssocPaths,
       user_id \in AssocUserIds, data \in AssocRoleSets :
        ChangeUserRoles(token, path[1], path[2], user_id, data)
UserRoleRemoves ==
    \E token \in AssocTokens, path \in AssocPaths,
       user_id \in AssocUserIds, data \in AssocRoleSets :
        RemoveRolesFromUser(token, path[1], path[2], user_id, data)
RolePermissionAdds ==
    \E token \in AssocTokens, path \in AssocPaths, perm_id \in AssocPermIds :
        AddPermissionToRole(token, path[1], path[2], perm_id)
RolePermissionChanges ==
    \E token \in AssocTokens, path \in AssocPaths, data \in AssocPermSets :
        ChangeRolePermissions(token, path[1], path[2], data)
RolePermissionRemoves ==
    \E token \in AssocTokens, path \in AssocPaths, data \in AssocPermSets :
        RemovePermissionsFromRole(token, path[1], path[2], data)

NextAssoc ==
    \/ Startup
    \/ RoleReads
    \/ RoleRenames
    \/ UserRenames
    \/ PermissionRenames
    \/ RoleDeletesAt
    \/ UserDeletes
    \/ PermissionDeletesAt
    \/ UserRoleReads
    \/ UserRoleAdds
    \/ UserRoleChanges
    \/ UserRoleRemoves
    \/ RolePermissionAdds
    \/ RolePermissionChanges
    \/ RolePermissionRemoves
    \/ Respond

SpecAssoc == InitAssoc /\ [][NextAssoc]_vars

\* The strings handed to slug_is_valid: up to MaxRuns runs, of lengths that
\* reach both sides of the limits 3 and 255.
MaxRuns == 3
RunLengths == {1, 2, 254}
Slugs == UNION {[1..k -> [c : Chars, n : RunLengths]] : k \in 0..MaxRuns}

\* The validator is applied to a string.
Validate(v) ==
    /\ Idle
    /\ last' = [op |-> "slug_is_valid", v |-> v, result |-> slug_is_valid(v)]
    /\ UNCHANGED <<db, settings, serving, now, tokens>>

InitSlug ==
    /\ db = EmptyDb
    /\ settings = [allow_login |-> TRUE, default_user_role |-> ""]
    /\ serving = FALSE
    /\ now = 0
    /\ tokens = {}
    /\ last = [op |-> "none"]

Validations == Idle /\ \E v \in Slugs : Validate(v)
NextSlug ==
    \/ Validations
    \/ Respond

SpecSlug == InitSlug /\ [][NextSlug]_vars

(***************************************************************************)
(* Properties.                                                             *)
(***************************************************************************)
\* What the association tables say a user may do, read off the tables
\* directly.
Live(u) ==
    UNION {{p.name : p \in {q \in db.perms : <<q.id, r.id>> \in db.perm2role}} :
           r \in {x \in db.roles : <<u.id, x.id>> \in db.user2role}}
UsersNamed(app_slug, tn_slug, name) ==
    {u \in db.users : u.name = name /\
        \E t \in db.tenants : t.id = u.tenant_id /\ t.slug = tn_slug /\
            \E a \in db.apps : a.id = t.application_id /\ a.slug = app_slug}
GateUsers(token) == UsersNamed(MANAGEMENT_APP, MANAGEMENT_TENANT, token.sub)
Verifies(token) == token.present /\ token.sig /\ Unix(now) <= token.exp
HasSubject(token) == token.sub # NoSub /\ token.sub # ""

\* C1: a request the gate lets through has its required permissions
\* included both in the scopes of its token and in the live permissions
\* of the resolved user; a request that gets as far as the permission
\* check (token decoded, subject and scopes present, user resolved and not
\* suspended) with either inclusion failing ends no-permission.
C1_GateRequiresBothInclusions ==
    last.op = "request" =>
        /\ last.code = "ok" =>
               \E u \in GateUsers(last.token) :
                   /\ u.id = last.user
                   /\ last.req_perm \subseteq last.token.scopes
                   /\ last.req_perm \subseteq Live(u)
        /\ \A u \in GateUsers(last.token) :
               ( /\ Verifies(last.token)
                 /\ HasSubject(last.token)
                 /\ ~u.suspended
                 /\ \/ ~(last.req_perm \subseteq last.token.scopes)
                    \/ ~(last.req_perm \subseteq Live(u)) )
               => last.code = "no-permission"
C1_Witness ==
    /\ last.op = "request"
    /\ last.code = "ok"
    /\ last.req_perm = {"version:r", "perm:d"}

\* C2: a token that login issued and that still verifies, whose scopes
\* list a permission its subject no longer holds (the role was taken from
\* the user or the permission from the role after the token was issued),
\* ends no-permission on every request that requires that permission.
C2_RevocationOnNextRequest ==
    (last.op = "request" /\ last.token \in tokens) =>
        \A u \in GateUsers(last.token) :
            ( /\ u.id = last.token.uid
              /\ Verifies(last.token)
              /\ ~u.suspended
              /\ \E p \in last.req_perm \cap last.token.scopes : p \notin Live(u) )
            => last.code = "no-permission"
C2_Witness ==
    /\ last.op = "request"
    /\ last.token \in tokens
    /\ Verifies(last.token)
    /\ last.req_perm = {"version:r"}
    /\ "version:r" \in last.token.scopes
    /\ \E u \in GateUsers(last.token) :
           u.id = last.token.uid /\ ~u.suspended /\ Live(u) = {}
    /\ last.code = "no-permission"

\* C3: the outcome of the gate is that of the first failing check, in
\* the order: token absent (not-authenticated), decode failure
\* (invalid-credentials), subject missing or empty (invalid-credentials),
\* scope list empty (no-permission), user not found (invalid-credentials),
\* user suspended (invalid-credentials), permissions not covered
\* (no-permission); otherwise the request passes.
C3_Expected(token, req_perm) ==
    IF ~token.present THEN <<"not-authenticated", "no-token">>
    ELSE IF ~token.sig \/ token.exp < Unix(now)
    THEN <<"invalid-credentials", "decode">>
    ELSE IF ~HasSubject(token) THEN <<"invalid-credentials", "no-username">>
    ELSE IF token.scopes = {} THEN <<"no-permission", "no-scopes">>
    ELSE IF GateUsers(token) = {} THEN <<"invalid-credentials", "no-user">>
    ELSE IF \E u \in GateUsers(token) : u.suspended
    THEN <<"invalid-credentials", "suspended">>
    ELSE IF ~(req_perm \subseteq token.scopes) THEN <<"no-permission", "token-scopes">>
    ELSE IF \E u \in GateUsers(token) : ~(req_perm \subseteq Live(u))
    THEN <<"no-permission", "user-perms">>
    ELSE <<"ok", "">>
C3_FirstFailingCheckDecides ==
    last.op = "request" =>
        /\ <<last.code, last.why>> = C3_Expected(last.token, last.req_perm)
        /\ (Verifies(last.token) /\ last.token.sub = "" /\ last.token.scopes = {})
               => last.code = "invalid-credentials"
        /\ ( /\ Verifies(last.token)
             /\ GateUsers(last.token) # {}
             /\ last.token.scopes = {} )
               => last.code = "no-permission"
C3_Witness ==
    /\ last.op = "request"
    /\ Verifies(last.token)
    /\ last.token.scopes = {}
    /\ \E u \in GateUsers(last.token) : ~u.suspended
    /\ last.code = "no-permission"

\* C4: a suspended user gets no token from login, whatever the password
\* and the requested scopes, and the gate lets no request through whose
\* token names a suspended user, whatever its scopes and the permissions
\* of the user.
C4_SuspendedIsBlocked ==
    /\ last.op = "login" =>
           ((\E u \in UsersNamed(last.target[1], last.target[2], last.username) :
                u.suspended)
            => (last.code # "ok" /\ last.token = NoToken))
    /\ last.op = "request" =>
           ((\E u \in GateUsers(last.token) : u.suspended) => last.code # "ok")
C4_Witness ==
    /\ last.op = "login"
    /\ settings.allow_login
    /\ last.password = "pw"
    /\ \E u \in UsersNamed(last.target[1], last.target[2], last.username) :
           u.suspended /\ u.password[1] = last.password
    /\ last.code = "invalid-credentials"

\* C5: a login that asks for no scopes and succeeds returns a token whose
\* scopes are exactly the live permissions of the user at that moment.
C5_DefaultScopesAreLivePermissions ==
    (last.op = "login" /\ last.code = "ok" /\ last.scopes = {}) =>
        \E u \in UsersNamed(last.target[1], last.target[2], last.username) :
            /\ last.token.uid = u.id
            /\ last.token.sub = u.name
            /\ last.token.scopes = Live(u)
C5_Witness ==
    /\ last.op = "login"
    /\ last.code = "ok"
    /\ last.scopes = {}
    /\ last.username = super_user
    /\ last.token.scopes = CatalogNames

\* C6: the scopes of a token issued by login are included in the live
\* permissions of the user; a login that asks for a non-empty set of
\* scopes not included in them is rejected without a token, and one that
\* asks for a non-empty set and succeeds is granted exactly that set.
C6_GrantedScopesWithinLivePermissions ==
    last.op = "login" =>
        \A u \in UsersNamed(last.target[1], last.target[2], last.username) :
            /\ last.code = "ok" => last.token.scopes \subseteq Live(u)
            /\ (last.scopes # {} /\ ~(last.scopes \subseteq Live(u)))
                   => (last.code # "ok" /\ last.token = NoToken)
            /\ (last.scopes # {} /\ last.code = "ok")
                   => last.token.scopes = last.scopes
C6_Witness ==
    /\ last.op = "login"
    /\ settings.allow_login
    /\ last.scopes = {"version:r"}
    /\ \E u \in UsersNamed(last.target[1], last.target[2], last.username) :
           /\ ~u.suspended
           /\ Len(u.password) = 2 /\ u.password[1] = last.password
           /\ ~(last.scopes \subseteq Live(u))
    /\ last.code = "invalid-credentials"
    /\ last.token = NoToken

\* C7: login issues a token only if the user exists in the target
\* application and tenant, is not suspended and the password verifies
\* against the stored hash; every rejection leaves no token, and an
\* unknown or a suspended user is rejected as such whatever the password.
C7_PasswordMatches(u, password) ==
    \E salt \in Salts : u.password = <<password, salt>>
C7_LoginConditions ==
    last.op = "login" =>
        LET users == UsersNamed(last.target[1], last.target[2], last.username)
        IN /\ last.code = "ok" =>
                  \E u \in users : /\ ~u.suspended
                                    /\ C7_PasswordMatches(u, last.password)
                                    /\ last.token.uid = u.id
           /\ last.code # "ok" => last.token = NoToken
           /\ (settings.allow_login /\ last.username # "") =>
                  /\ users = {} => last.why = "no-user"
                  /\ (\E u \in users : u.suspended) => last.why = "suspended"
                  /\ (\E u \in users : /\ ~u.suspended
                                           /\ ~C7_PasswordMatches(u, last.password))
                         => last.why = "password"
C7_Witness ==
    /\ last.op = "login"
    /\ settings.allow_login
    /\ \E u \in UsersNamed(last.target[1], last.target[2], last.username) :
           u.suspended /\ ~C7_PasswordMatches(u, last.password)
    /\ last.why = "suspended"
    /\ last.token = NoToken

C9_ResolvedIsUnionOverRoles ==
    \A u \in db.users : \A ro \in Orders, po \in Orders :
        /\ get_permissions_in(db, u, ro, po) = Live(u)
        /\ (\A r \in db.roles : <<u.id, r.id>> \notin db.user2role)
               => get_permissions_in(db, u, ro, po) = {}
C9_Witness ==
    /\ last.op = "request"
    /\ last.code = "ok"
    /\ \E u \in db.users :
           /\ u.id = last.user
           /\ \E r1, r2 \in user_roles(db, u) :
                  /\ role_perms(db, r1) # {}
                  /\ ~(role_perms(db, r2) \subseteq role_perms(db, r1))
           /\ get_permissions(db, u) = CatalogNames
    /\ \E u \in db.users : user_roles(db, u) = {} /\ get_permissions(db, u) = {}

\* C10: a bootstrap that directly follows a successful bootstrap with the
\* same arguments commits, leaves the store exactly as it found it and
\* reports nothing as newly created.
C10_SecondBootstrapChangesNothing ==
    (last.op = "init_db" /\ last.second) =>
        /\ last.result.ok
        /\ db = last.before
        /\ ~last.result.is_app_new
        /\ ~last.result.is_t_new
        /\ ~last.result.is_u_new
        /\ ~last.result.is_r_new
        /\ last.result.new_perms = {}
        /\ ~last.result.has_new_perms
C10_Witness ==
    /\ last.op = "init_db"
    /\ last.second
    /\ last.result.ok
    /\ Cardinality(db.apps) = 1
    /\ Cardinality(db.perms) = Len(MANAGEMENT_PERMS)
    /\ db = last.before

\* C11: a bootstrap of an empty store leaves exactly one application, one
\* tenant of it, one user and one role of that tenant and one permission of
\* that tenant per catalog entry, the user holding the role and the role
\* holding every permission; so no application is without a tenant, no
\* tenant without users, roles and permissions, no user without a role and
\* no role without a permission.
C11_BootstrapOfEmptyStore ==
    (last.op = "init_db" /\ last.before = EmptyDb) =>
        /\ last.result.ok
        /\ \E a \in db.apps, t \in db.tenants, u \in db.users, r \in db.roles :
              /\ db.apps = {a} /\ a.slug = MANAGEMENT_APP
              /\ db.tenants = {t} /\ t.slug = MANAGEMENT_TENANT
              /\ t.application_id = a.id
              /\ db.users = {u} /\ u.name = super_user /\ u.tenant_id = t.id
              /\ db.roles = {r} /\ r.name = super_role /\ r.tenant_id = t.id
              /\ Cardinality(db.perms) = Len(MANAGEMENT_PERMS)
              /\ \A i \in 1..Len(MANAGEMENT_PERMS) :
                    Cardinality({p \in db.perms : /\ p.name = MANAGEMENT_PERMS[i].name
                                                  /\ p.tenant_id = t.id}) = 1
              /\ db.user2role = {<<u.id, r.id>>}
              /\ db.perm2role = {<<p.id, r.id>> : p \in db.perms}
              /\ Cardinality(db.perm2role) = Len(MANAGEMENT_PERMS)
C11_Witness ==
    /\ last.op = "init_db"
    /\ last.before = EmptyDb
    /\ last.result.ok
    /\ last.result.is_app_new
    /\ Cardinality(db.perm2role) = Len(MANAGEMENT_PERMS)

\* C12: after every bootstrap that succeeded, whatever it found and
\* whatever it had to create, the super user of the management tenant
\* holds the super role and the super role holds every permission of the
\* catalog.
C12_SuperUserHoldsCatalog ==
    (last.op = "init_db" /\ last.result.ok) =>
        \E u \in UsersNamed(MANAGEMENT_APP, MANAGEMENT_TENANT, super_user) :
            \E r \in user_roles(db, u) :
                /\ r.name = super_role
                /\ r.tenant_id = u.tenant_id
                /\ \A i \in 1..Len(MANAGEMENT_PERMS) :
                      \E p \in role_perms(db, r) :
                          /\ p.name = MANAGEMENT_PERMS[i].name
                          /\ p.tenant_id = u.tenant_id
\* The run found the super user without the super role, and permissions of
\* the catalog that the role did not hold.
C12_Witness ==
    /\ last.op = "init_db"
    /\ last.result.ok
    /\ ~last.result.is_u_new
    /\ ~last.result.has_new_perms
    /\ <<last.result.user, last.result.role>> \notin last.before.user2role
    /\ \E p \in last.before.perms :
          /\ p.id \in last.result.perms
          /\ <<p.id, last.result.role>> \notin last.before.perm2role

\* C13: a bootstrap that runs on a store which an earlier bootstrap and
\* committed administrative requests produced commits, and afterwards the
\* management application, its tenant, the super user, the super role and
\* every permission of the catalog exist exactly once in their scope.
C13_FurtherBootstrapConverges ==
    last.op = "init_db" =>
        /\ last.result.ok
        /\ Cardinality(probe_app(db, MANAGEMENT_APP)) = 1
        /\ Cardinality(tenant_by_slug(db, MANAGEMENT_APP, MANAGEMENT_TENANT)) = 1
        /\ Cardinality(UsersNamed(MANAGEMENT_APP, MANAGEMENT_TENANT, super_user)) = 1
        /\ Cardinality({r \in select_role_by_slug(db, MANAGEMENT_APP, MANAGEMENT_TENANT) :
                            r.name = super_role}) = 1
        /\ \A i \in 1..Len(MANAGEMENT_PERMS) :
              Cardinality({p \in select_perm_by_slug(db, MANAGEMENT_APP, MANAGEMENT_TENANT) :
                              p.name = MANAGEMENT_PERMS[i].name}) = 1

\* C14: a bootstrap that fails leaves the store as it found it: none of
\* the rows and associations it prepared is there.
C14_BootstrapAllOrNothing ==
    (last.op = "init_db" /\ ~last.result.ok) => db = last.before
\* The failed run had prepared a new application with everything below it.
C14_Witness ==
    /\ last.op = "init_db"
    /\ ~last.result.ok
    /\ last.result.is_app_new
    /\ last.result.has_new_perms
    /\ db = last.before

\* C15: a request is answered only while the process serves; the process
\* starts to serve only by a start-up whose init_db returned; a start-up
\* whose init_db raised leaves the process not serving.
C15_ServesOnlyAfterBootstrap ==
    [][/\ (last' # last /\ last'.op \notin {"none", "init_db"}) => serving
       /\ (serving' /\ ~serving) => (last'.op = "init_db" /\ last'.result.ok)
       /\ (last' # last /\ last'.op = "init_db" /\ ~last'.result.ok) => ~serving']_vars
C15_Witness ==
    /\ last.op = "init_db"
    /\ ~last.result.ok
    /\ ~serving
    /\ last.before # EmptyDb

\* The request went past the gate of its route and was answered by its
\* handler.
Handled == last.code \in {"ok", "conflict", "not-found", "internal"}
\* The rows of a table that belong to the tenant tn_slug of the application
\* app_slug, read off the foreign keys.
Scoped(d, rows, app_slug, tn_slug) ==
    {r \in rows :
        \E t \in d.tenants : /\ t.id = r.tenant_id
                             /\ t.slug = tn_slug
                             /\ \E a \in d.apps : a.id = t.application_id /\ a.slug = app_slug}
TenantsOf(d, app_slug) ==
    {t \in d.tenants : \E a \in d.apps : a.id = t.application_id /\ a.slug = app_slug}

C17_NamesScopedToTenant ==
    LET b == last.before
        a == last.args
        rows == IF last.op \in {"create_user", "edit_user"} THEN b.users
                ELSE IF last.op \in {"create_role", "edit_role"} THEN b.roles
                ELSE b.perms
        in_t == Scoped(b, rows, a.app_slug, a.tn_slug)
        expected(others) == IF \E r \in others : r.name = a.name THEN "conflict" ELSE "ok"
    IN /\ (last.op \in {"create_user", "create_role", "create_permission"} /\ Handled) =>
             (Cardinality({t \in TenantsOf(b, a.app_slug) : t.slug = a.tn_slug}) = 1
                 => last.code = expected(in_t))
       /\ (last.op \in {"edit_user", "edit_role", "edit_permission"} /\ Handled) =>
             ((\E row \in in_t : row.id = a.id)
                 => last.code = expected({r \in in_t : r.id # a.id}))

\* C18: with requests answered one at a time the store never holds two
\* applications with one slug, two tenants of one application with one
\* slug, or two users, two roles or two permissions of one tenant with one
\* name.
C18_NoDuplicatesInScope ==
    /\ \A x, y \in db.apps : x.slug = y.slug => x.id = y.id
    /\ \A x, y \in db.tenants :
          (x.slug = y.slug /\ x.application_id = y.application_id) => x.id = y.id
    /\ \A x, y \in db.users : (x.name = y.name /\ x.tenant_id = y.tenant_id) => x.id = y.id
    /\ \A x, y \in db.roles : (x.name = y.name /\ x.tenant_id = y.tenant_id) => x.id = y.id
    /\ \A x, y \in db.perms : (x.name = y.name /\ x.tenant_id = y.tenant_id) => x.id = y.id
\* The creation of a user with the name of a user of the tenant was
\* refused, in a store where the name of a user of one tenant is also the
\* name of a user of another.
C18_Witness ==
    /\ last.op = "create_user"
    /\ last.code = "conflict"
    /\ \E x, y \in db.users : x.name = y.name /\ x.tenant_id # y.tenant_id

\* C19: of two requests that create or rename to the same name in the same
\* scope and both pass the probe before either commits, one succeeds, the
\* other is answered Conflict, and one row has the name in the scope.
RaceOver == last.op = "race" /\ \A i \in 1..2 : last.at[i] \notin {"arrived", "probed"}
RaceRows(d, r) ==
    IF r.op \in {"create_app", "edit_app"} THEN {x \in d.apps : x.slug = r.name}
    ELSE IF r.op \in {"create_tenant", "edit_tenant"}
    THEN {t \in TenantsOf(d, MANAGEMENT_APP) : t.slug = r.name}
    ELSE LET rows == IF r.op \in {"create_user", "edit_user"} THEN d.users
                     ELSE IF r.op \in {"create_role", "edit_role"} THEN d.roles
                     ELSE d.perms
         IN {x \in Scoped(d, rows, MANAGEMENT_APP, MANAGEMENT_TENANT) : x.name = r.name}
C19_RaceLoserGetsConflict ==
    (RaceOver /\ last.probed[1] /\ last.probed[2]) =>
        /\ {last.at[1], last.at[2]} = {"ok", "conflict"}
        /\ Cardinality(RaceRows(db, last.reqs[1])) = 1

\* C20: deleting an application succeeds and leaves no tenant, user, role
\* or permission that was under it; deleting a tenant succeeds and leaves
\* no user, role or permission that was under it.
C20_DeleteRemovesDescendants ==
    LET b == last.before
        gone_t == IF last.op = "delete_app" THEN TenantsOf(b, last.args.app_slug)
                  ELSE {t \in TenantsOf(b, last.args.app_slug) : t.slug = last.args.tn_slug}
        below(rows) == {r \in rows : \E t \in gone_t : r.tenant_id = t.id}
    IN /\ (last.op = "delete_app" /\ Handled /\ probe_app(b, last.args.app_slug) # {}) =>
             /\ last.code = "ok"
             /\ probe_app(db, last.args.app_slug) = {}
             /\ db.tenants \cap gone_t = {}
             /\ below(db.users) \cup below(db.roles) \cup below(db.perms) = {}
       /\ (last.op = "delete_tenant" /\ Handled /\ Cardinality(gone_t) = 1) =>
             /\ last.code = "ok"
             /\ db.tenants \cap gone_t = {}
             /\ below(db.users) \cup below(db.roles) \cup below(db.perms) = {}

\* C21: every tenant references one application that exists and every
\* user, role and permission one tenant that exists, and a row that a
\* request leaves in the store has the owner it had before the request.
SameOwner(before, after) ==
    \A x \in before, y \in after : x.id = y.id => x.tenant_id = y.tenant_id
C21_OwnershipFixed ==
    /\ \A t \in db.tenants : Cardinality({a \in db.apps : a.id = t.application_id}) = 1
    /\ \A r \in db.users \cup db.roles \cup db.perms :
          Cardinality({t \in db.tenants : t.id = r.tenant_id}) = 1
    /\ last.op # "none" =>
          /\ \A x \in last.before.tenants, y \in db.tenants :
                x.id = y.id => x.application_id = y.application_id
          /\ SameOwner(last.before.users, db.users)
          /\ SameOwner(last.before.roles, db.roles)
          /\ SameOwner(last.before.perms, db.perms)
\* A tenant of one of two applications was renamed.
C21_Witness ==
    /\ last.op = "edit_tenant"
    /\ last.code = "ok"
    /\ Cardinality(db.apps) = 2
    /\ \E t \in db.tenants : t.application_id # 1

\* A row with this id exists in the table, but not among the rows of the
\* tenant tn_slug of the application app_slug.
Foreign(d, rows, app_slug, tn_slug, id) ==
    /\ WithId(rows, id) # {}
    /\ WithId(Scoped(d, rows, app_slug, tn_slug), id) = {}
ByIdOps ==
    {"get_role", "edit_role", "delete_role", "edit_user", "delete_user",
     "edit_permission", "delete_permission", "add_role_to_user",
     "change_user_roles", "remove_roles_from_user", "add_permission_to_role",
     "remove_permissions_from_role"}
\* The request in last names, in its path or its body, a user, role or
\* permission of another tenant.
NamesForeignRow ==
    LET b == last.before
        a == last.args
    IN \/ /\ last.op \in {"get_role", "edit_role", "delete_role", "add_role_to_user"}
          /\ Foreign(b, b.roles, a.app_slug, a.tn_slug, a.id)
       \/ /\ last.op \in {"edit_user", "delete_user"}
          /\ Foreign(b, b.users, a.app_slug, a.tn_slug, a.id)
       \/ /\ last.op \in {"edit_permission", "delete_permission", "add_permission_to_role"}
          /\ Foreign(b, b.perms, a.app_slug, a.tn_slug, a.id)
       \/ /\ last.op \in {"add_role_to_user", "change_user_roles", "remove_roles_from_user"}
          /\ Foreign(b, b.users, a.app_slug, a.tn_slug, a.user_id)
       \/ /\ last.op \in {"change_user_roles", "remove_roles_from_user"}
          /\ \E id \in a.data : Foreign(b, b.roles, a.app_slug, a.tn_slug, id)
       \/ /\ last.op = "remove_permissions_from_role"
          /\ \E id \in a.data : Foreign(b, b.perms, a.app_slug, a.tn_slug, id)

\* C22: a read, rename, delete or association request whose path names a
\* tenant and whose id names a user, role or permission of another tenant
\* (a tenant with the same slug under another application included) is
\* answered not-found and changes nothing, although a row with that id
\* exists.
C22_ForeignIdIsNotFound ==
    (last.op \in ByIdOps /\ "before" \in DOMAIN last /\ Handled /\ NamesForeignRow) =>
        /\ last.code = "not-found"
        /\ db = last.before

\* C24: adding a role to a user that already has it, or a permission to a
\* role that already has it, succeeds and leaves the associations as they
\* were, so the assignment is there exactly once however often the request
\* is repeated.  (The path of the permission request names no role; the
\* case taken is a permission that every role of the tenant already has.)
C24_AddingAssignedIsNoOp ==
    LET b == last.before
        a == last.args
    IN /\ (last.op = "add_role_to_user" /\ Handled
            /\ WithId(Scoped(b, b.users, a.app_slug, a.tn_slug), a.user_id) # {}
            /\ WithId(Scoped(b, b.roles, a.app_slug, a.tn_slug), a.id) # {}
            /\ <<a.user_id, a.id>> \in b.user2role) =>
              (last.code = "ok" /\ db = b)
       /\ (last.op = "add_permission_to_role" /\ Handled
            /\ WithId(Scoped(b, b.perms, a.app_slug, a.tn_slug), a.id) # {}
            /\ Scoped(b, b.roles, a.app_slug, a.tn_slug) # {}
            /\ \A r \in Scoped(b, b.roles, a.app_slug, a.tn_slug) :
                  <<a.id, r.id>> \in b.perm2role) =>
              (last.code = "ok" /\ db = b)

\* C25: a request to remove roles from a user (permissions from a role)
\* that lists one the user (role) does not have fails as an error of the
\* request, which is not the not-found of the user (role) itself, and
\* removes nothing, the listed associations that exist included.
C25_RemovingUnassignedIsRequestError ==
    LET b == last.before
        a == last.args
    IN /\ (last.op = "remove_roles_from_user" /\ Handled
            /\ WithId(Scoped(b, b.users, a.app_slug, a.tn_slug), a.user_id) # {}
            /\ \E id \in a.data : <<a.user_id, id>> \notin b.user2role) =>
              (last.code \notin {"ok", "not-found", "internal"} /\ db = b)
       /\ (last.op = "remove_permissions_from_role" /\ Handled
            /\ Scoped(b, b.roles, a.app_slug, a.tn_slug) # {}
            /\ \E id \in a.data : \A r \in Scoped(b, b.roles, a.app_slug, a.tn_slug) :
                  <<id, r.id>> \notin b.perm2role) =>
              (last.code \notin {"ok", "not-found", "internal"} /\ db = b)

\* C23: in every store the service can reach, for every tenant and the
\* application it belongs to, selecting by (application slug, tenant slug)
\* and selecting by (application id, tenant id) give the same rows under
\* the same filters, for users, roles and permissions.
C23_SlugAndIdLookupsAgree ==
    \A a \in db.apps, t \in db.tenants :
        t.application_id = a.id =>
            /\ select_user_by_slug(db, a.slug, t.slug) = select_user_by_id(db, a.id, t.id)
            /\ select_role_by_slug(db, a.slug, t.slug) = select_role_by_id(db, a.id, t.id)
            /\ select_perm_by_slug(db, a.slug, t.slug) = select_perm_by_id(db, a.id, t.id)

\* The rows that a create or rename request must not collide with: the
\* rows of its scope, the row being renamed left out.
OthersInScope(b, op, a) ==
    IF op = "create_app" THEN b.apps
    ELSE IF op = "edit_app" THEN {x \in b.apps : x.slug # a.app_slug}
    ELSE IF op = "create_tenant" THEN TenantsOf(b, a.app_slug)
    ELSE IF op = "edit_tenant" THEN {t \in TenantsOf(b, a.app_slug) : t.slug # a.tn_slug}
    ELSE IF op = "create_user" THEN Scoped(b, b.users, a.app_slug, a.tn_slug)
    ELSE IF op = "edit_user" THEN {r \in Scoped(b, b.users, a.app_slug, a.tn_slug) : r.id # a.id}
    ELSE IF op = "create_role" THEN Scoped(b, b.roles, a.app_slug, a.tn_slug)
    ELSE IF op = "edit_role" THEN {r \in Scoped(b, b.roles, a.app_slug, a.tn_slug) : r.id # a.id}
    ELSE IF op = "create_permission" THEN Scoped(b, b.perms, a.app_slug, a.tn_slug)
    ELSE {r \in Scoped(b, b.perms, a.app_slug, a.tn_slug) : r.id # a.id}
BySlug(op) == op \in {"create_app", "edit_app", "create_tenant", "edit_tenant"}
NameIsHeld(b, op, a) ==
    IF BySlug(op) THEN \E x \in OthersInScope(b, op, a) : x.slug = a.slug
    ELSE \E x \in OthersInScope(b, op, a) : x.name = a.name
CreateOrRenameOps ==
    {"create_app", "edit_app", "create_tenant", "edit_tenant", "create_user",
     "edit_user", "create_role", "edit_role", "create_permission", "edit_permission"}

\* C26: a create or rename request whose target was found succeeds exactly
\* when no other row of the same scope holds the requested slug or name
\* (so renaming a row to the name it has succeeds); when another row holds
\* it the answer is Conflict and the store is left as it was, with no row
\* added and neither row changed.
C26_SucceedsExactlyWhenNameIsFree ==
    (last.op \in CreateOrRenameOps /\ Handled /\ last.code # "not-found") =>
        /\ (last.code = "ok") <=> ~NameIsHeld(last.before, last.op, last.args)
        /\ NameIsHeld(last.before, last.op, last.args) =>
              (last.code = "conflict" /\ db = last.before)

\* The outcomes that refuse a request: 422, 404, 409, and the 401 and 403
\* of the gate.
Refusals ==
    {"validation", "not-found", "conflict", "not-authenticated",
     "invalid-credentials", "no-permission"}

\* C27: a request that ends in Validation, NotFound, Conflict,
\* Unauthenticated or Unauthorized leaves the store exactly as it was
\* before the request: no row and no association is created, changed or
\* removed.
C27_RefusedRequestChangesNothing ==
    (last.op \notin {"none", "init_db", "race"} /\ "before" \in DOMAIN last
        /\ last.code \in Refusals) => db = last.before
\* A delete was refused as not-found for an id that a user of another
\* tenant has, in a store that earlier requests have changed.
C27_Witness ==
    /\ last.op = "delete_user"
    /\ last.code = "not-found"
    /\ WithId(db.users, last.args.id) # {}
    /\ \E r \in db.roles : r.name = "aide"

\* The session of request i of the two in flight is open.
SessionOpen(i) == last.op = "race" /\ ~last.closed[i]

\* C28: each request has a database session of its own, which no request
\* in flight at the same time shares, and the session is eventually
\* released however the request ends: with its response, with the response
\* of an expected error, or with an exception nothing caught.
C28_OwnSessionAlwaysReleased ==
    /\ [](last.op = "race" => last.session[1] # last.session[2])
    /\ \A i \in 1..2 : SessionOpen(i) ~> ~SessionOpen(i)
\* Of two overlapping requests one ended with an exception nothing caught
\* and the other with its response, and the sessions of both are closed.
C28_Witness ==
    /\ last.op = "race"
    /\ {last.at[1], last.at[2]} = {"internal", "ok"}
    /\ last.closed[1] /\ last.closed[2]

\* What the gate should answer, written as a function of its inputs and of
\* nothing else: the token, the permissions the route requires, the
\* committed store d and the time t (whether the signature verifies under
\* the signing configuration is the field sig of the token).  The value is
\* the outcome and the user it resolves.
Decision(token, req_perm, d, t) ==
    LET named == {u \in d.users : u.name = token.sub /\
                    \E tn \in d.tenants :
                        /\ tn.id = u.tenant_id /\ tn.slug = MANAGEMENT_TENANT
                        /\ \E a \in d.apps : a.id = tn.application_id
                                                /\ a.slug = MANAGEMENT_APP}
        held(u) == {p.name : p \in {q \in d.perms :
                      \E r \in d.roles : /\ <<u.id, r.id>> \in d.user2role
                                          /\ <<q.id, r.id>> \in d.perm2role}}
    IN IF ~token.present THEN <<"not-authenticated", 0>>
       ELSE IF ~token.sig \/ token.exp < Unix(t) THEN <<"invalid-credentials", 0>>
       ELSE IF token.sub = NoSub \/ token.sub = "" THEN <<"invalid-credentials", 0>>
       ELSE IF token.scopes = {} THEN <<"no-permission", 0>>
       ELSE IF named = {} THEN <<"invalid-credentials", 0>>
       ELSE IF Cardinality(named) > 1 THEN <<"internal", 0>>
       ELSE IF \E u \in named : u.suspended THEN <<"invalid-credentials", 0>>
       ELSE IF \E u \in named : ~(req_perm \subseteq (token.scopes \cap held(u)))
       THEN <<"no-permission", 0>>
       ELSE <<"ok", (CHOOSE u \in named : TRUE).id>>

\* C29: what the gate answers is a function of the token, the required
\* permissions, the committed store, the time and the signing
\* configuration only; an instance answers the same whatever tokens it has
\* issued and whatever requests it has handled before, so two instances in
\* front of one store answer alike.
C29_GateDecisionIsStateless ==
    last.op = "request" =>
        <<last.code, last.user>> = Decision(last.token, last.req_perm, db, now)
\* A token that this instance issued itself is refused, once it has
\* expired.
C29_Witness ==
    /\ last.op = "request"
    /\ last.token \in tokens
    /\ tokens # {}
    /\ last.code = "invalid-credentials"
    /\ last.token.exp < Unix(now)

\* C30: slug_is_valid returns its argument unchanged exactly when the
\* argument is 3 to 255 characters long, consists only of the characters
\* a-z, 0-9, _ and -, and contains at least one lowercase letter; for every
\* other string it raises ValueError.
C30_SlugAcceptedExactlyWhenWellFormed ==
    last.op = "slug_is_valid" =>
        LET v == last.v
            well_formed ==
                /\ 3 <= len(v) /\ len(v) <= 255
                /\ \A i \in 1..Len(v) : v[i].c \in {"a", "1", "_", "-"}
                /\ \E i \in 1..Len(v) : v[i].c = "a"
        IN /\ well_formed <=> ~last.result.raised
           /\ ~last.result.raised => last.result.value = v


(***************************************************************************)
(* The bootstrap on the stores that earlier runs and requests leave        *)
(* behind, with the deletions that make it find rows missing.              *)
(***************************************************************************)
\* The former management application was renamed and emptied of its role
\* and permissions, and an application with the management slug was
\* created: the application is there and its tenant is not.
BareDb ==
    [apps |-> {[id |-> 1, slug |-> "other"], [id |-> 2, slug |-> MANAGEMENT_APP]},
     tenants |-> {[id |-> 1, slug |-> MANAGEMENT_TENANT, application_id |-> 1]},
     users |-> {[id |-> 1, name |-> super_user, tenant_id |-> 1,
                 password |-> pwd_hash(super_password, 1), suspended |-> FALSE]},
     roles |-> {},
     perms |-> {},
     user2role |-> {}, perm2role |-> {}]
\* The management tenant emptied of its users, roles and permissions.
LoneDb ==
    [apps |-> {[id |-> 1, slug |-> MANAGEMENT_APP]},
     tenants |-> {[id |-> 1, slug |-> MANAGEMENT_TENANT, application_id |-> 1]},
     users |-> {},
     roles |-> {},
     perms |-> {},
     user2role |-> {}, perm2role |-> {}]
\* The seeded store with the super user suspended.
SuspendedDb ==
    [SeedDb EXCEPT !.users =
        {IF u.id = 1 THEN [u EXCEPT !.suspended = TRUE] ELSE u : u \in @}]

InitBoot ==
    /\ db \in {EmptyDb, SeedDb, BareDb, LoneDb, SuspendedDb}
    /\ settings = [allow_login |-> TRUE, default_user_role |-> ""]
    /\ serving = FALSE
    /\ now = 0
    /\ tokens = {}
    /\ last = [op |-> "none"]

NextBoot ==
    \/ Startup
    \/ RoleDeletes
    \/ PermissionDeletes
    \/ Respond

SpecBoot == InitBoot /\ [][NextBoot]_vars

(***************************************************************************)
(* Two instances start up against the same store.  Each runs init_db in a  *)
(* session of its own: the probes read the store as it is then and add     *)
(* the rows they miss to the session; session.commit() flushes those rows  *)
(* against the store as it is at that time, in one transaction.  When the  *)
(* application is missing it is the only probe, and when it is found the   *)
(* run that created it has committed everything, so the probes of a run    *)
(* all read the same store.                                                *)
(***************************************************************************)
\* The INSERTs of the permissions that the run flagged as new, in the
\* order of perms.items(); the database hands out the ids.
RECURSIVE flush_perms(_, _, _, _, _)
flush_perms(rows, perms, i, new, tenant_id) ==
    IF i > Len(perms) THEN rows
    ELSE flush_perms(IF perms[i].name \in new
                     THEN rows \cup {[id |-> NextId(rows), name |-> perms[i].name,
                                      description |-> perms[i].description,
                                      tenant_id |-> tenant_id]}
                     ELSE rows,
                     perms, i + 1, new, tenant_id)

\* session.commit() of a run whose probes gave the result r on the store
\* `seen`, flushed against the store d.
init_db_commit(d, seen, r, app, tenant, perms, user, password, role) ==
    LET app_id == IF r.is_app_new THEN NextId(d.apps) ELSE r.app
        tenant_id == IF r.is_t_new THEN NextId(d.tenants) ELSE r.tenant
        user_id == IF r.is_u_new THEN NextId(d.users) ELSE r.user
        role_id == IF r.is_r_new THEN NextId(d.roles) ELSE r.role
        all_perms == flush_perms(d.perms, perms, 1, r.new_perms, tenant_id)
        found_perms == {p \in seen.perms : p.id \in r.perms}
        staged == [apps |-> d.apps \cup
                        (IF r.is_app_new THEN {[id |-> app_id, slug |-> app]} ELSE {}),
                   tenants |-> d.tenants \cup
                        (IF r.is_t_new
                         THEN {[id |-> tenant_id, slug |-> tenant,
                                application_id |-> app_id]}
                         ELSE {}),
                   users |-> d.users \cup
                        (IF r.is_u_new
                         THEN {[id |-> user_id, name |-> user, tenant_id |-> tenant_id,
                                password |-> password, suspended |-> FALSE]}
                         ELSE {}),
                   roles |-> d.roles \cup
                        (IF r.is_r_new
                         THEN {[id |-> role_id, name |-> role, tenant_id |-> tenant_id]}
                         ELSE {}),
                   perms |-> all_perms,
                   user2role |-> add_role(d.user2role, [id |-> user_id], [id |-> role_id]),
                   perm2role |-> add_perms(d.perm2role,
                                           found_perms \cup (all_perms \ d.perms),
                                           [id |-> role_id])]
    IN [ok |-> constraints_hold(staged),
        slug_clash |-> ~unique_slug(staged.apps),
        db |-> commit(d, staged)]

\* Two instances enter lifespan.
BootBegin(salt1, salt2) ==
    /\ Idle
    /\ ~serving
    /\ last' = [op |-> "boot", salt |-> <<salt1, salt2>>,
                at |-> <<"started", "started">>, before |-> db,
                seen |-> <<db, db>>, result |-> <<Null, Null>>,
                slug_clash |-> <<FALSE, FALSE>>]
    /\ UNCHANGED <<db, settings, serving, now, tokens>>

\* Instance i runs init_db up to session.commit().
BootProbe(i) ==
    /\ last.op = "boot"
    /\ last.at[i] = "started"
    /\ last' = [last EXCEPT
                  !.at[i] = "probed",
                  !.seen[i] = db,
                  !.result[i] = init_db(db, MANAGEMENT_APP, MANAGEMENT_TENANT,
                                        MANAGEMENT_PERMS, super_user,
                                        pwd_hash(super_password, last.salt[i]),
                                        super_role)]
    /\ UNCHANGED <<db, settings, serving, now, tokens>>

\* Instance i commits; if the commit raises, lifespan re-raises and the
\* instance does not start.
BootCommit(i) ==
    LET c == init_db_commit(db, last.seen[i], last.result[i],
                            MANAGEMENT_APP, MANAGEMENT_TENANT, MANAGEMENT_PERMS,
                            super_user, pwd_hash(super_password, last.salt[i]),
                            super_role)
    IN /\ last.op = "boot"
       /\ last.at[i] = "probed"
       /\ db' = c.db
       /\ serving' = (serving \/ startup_completes(c))
       /\ last' = [last EXCEPT !.at[i] = IF c.ok THEN "committed" ELSE "failed",
                               !.slug_clash[i] = c.slug_clash]
       /\ UNCHANGED <<settings, now, tokens>>

InitBootRace ==
    /\ db \in {EmptyDb, SeedDb, BareDb, LoneDb, TakenDb}
    /\ settings = [allow_login |-> TRUE, default_user_role |-> ""]
    /\ serving = FALSE
    /\ now = 0
    /\ tokens = {}
    /\ last = [op |-> "none"]

BootRaces == \E salt1, salt2 \in Salts : BootBegin(salt1, salt2)
BootProbes == \E i \in 1..2 : BootProbe(i)
BootCommits == \E i \in 1..2 : BootCommit(i)

NextBootRace ==
    \/ BootRaces
    \/ BootProbes
    \/ BootCommits
    \/ Respond

SpecBootRace == InitBootRace /\ [][NextBootRace]_vars

(***************************************************************************)
(* The result of the bootstrap, db/init_db.py InitDbResult.                *)
(***************************************************************************)
\* What the store held before the run, looked up through the chain
\* application -> tenant -> row.
HeldUser(d) ==
    {u \in select_user_by_slug(d, MANAGEMENT_APP, MANAGEMENT_TENANT) :
        u.name = super_user}
HeldRole(d) ==
    {r \in select_role_by_slug(d, MANAGEMENT_APP, MANAGEMENT_TENANT) :
        r.name = super_role}
HeldPerm(d, name) ==
    {p \in select_perm_by_slug(d, MANAGEMENT_APP, MANAGEMENT_TENANT) :
        p.name = name}

\* C31: in the result of a bootstrap each flag is set exactly when the
\* entity was not in the store before the run, has_new_perms is the
\* disjunction of the flags of the permissions, and a new application
\* (tenant) comes with everything below it reported as new, whatever rows
\* the store held: is_app_new implies is_t_new, which implies is_u_new,
\* is_r_new and the flag of every permission of the catalog.
C31_FlagsTellWhatWasMissing ==
    (last.op = "init_db" /\ last.result.ok) =>
        LET r == last.result
            b == last.before
        IN /\ r.is_app_new <=> probe_app(b, MANAGEMENT_APP) = {}
           /\ r.is_t_new <=> tenant_by_slug(b, MANAGEMENT_APP, MANAGEMENT_TENANT) = {}
           /\ r.is_u_new <=> HeldUser(b) = {}
           /\ r.is_r_new <=> HeldRole(b) = {}
           /\ \A name \in CatalogNames :
                 name \in r.new_perms <=> HeldPerm(b, name) = {}
           /\ r.new_perms \subseteq CatalogNames
           /\ r.has_new_perms <=> r.new_perms # {}
           /\ r.is_app_new => r.is_t_new
           /\ r.is_t_new => /\ r.is_u_new
                            /\ r.is_r_new
                            /\ r.new_perms = CatalogNames
           /\ r.is_app_new => /\ r.app \notin {a.id : a \in b.apps}
                              /\ r.tenant \notin {t.id : t \in b.tenants}
           /\ r.is_t_new => /\ r.tenant \notin {t.id : t \in b.tenants}
                            /\ r.user \notin {u.id : u \in b.users}
                            /\ r.role \notin {x.id : x \in b.roles}
                            /\ r.perms \cap {p.id : p \in b.perms} = {}
\* The application was there and its tenant was not: the run created the
\* tenant with everything below it.
C31_Witness ==
    /\ last.op = "init_db"
    /\ last.result.ok
    /\ ~last.result.is_app_new
    /\ last.result.is_t_new
    /\ last.result.is_u_new
    /\ last.result.new_perms = CatalogNames


\* The roles a user holds and the permissions a role holds, as sets of ids.
RoleIdsOf(d, user_id) == {x[2] : x \in {y \in d.user2role : y[1] = user_id}}
PermIdsOf(d, role_id) == {x[1] : x \in {y \in d.perm2role : y[2] = role_id}}
Resolve(rows, ids) == ids \subseteq {r.id : r \in rows}

\* C32: a request that replaces the roles of a user (the permissions of a
\* role) of the tenant of its path with a list of ids that all resolve
\* within that tenant succeeds and leaves the user with exactly the listed
\* roles (the role with exactly the listed permissions), the assignments of
\* every other user (role) being untouched; a request that lists an id
\* which does not resolve within the tenant fails and changes nothing.
C32_ChangeReplacesWithListedIds ==
    LET b == last.before
        a == last.args
    IN /\ (last.op = "change_user_roles" /\ Handled
            /\ WithId(Scoped(b, b.users, a.app_slug, a.tn_slug), a.user_id) # {}) =>
              IF Resolve(Scoped(b, b.roles, a.app_slug, a.tn_slug), a.data)
              THEN /\ last.code = "ok"
                   /\ RoleIdsOf(db, a.user_id) = a.data
                   /\ \A x \in b.user2role \cup db.user2role :
                         x[1] # a.user_id => (x \in b.user2role <=> x \in db.user2role)
              ELSE last.code # "ok" /\ db = b
       /\ (last.op = "change_role_permissions" /\ Handled
            /\ Scoped(b, b.roles, a.app_slug, a.tn_slug) # {}) =>
              IF Resolve(Scoped(b, b.perms, a.app_slug, a.tn_slug), a.data)
              THEN /\ last.code = "ok"
                   /\ \E r \in Scoped(b, b.roles, a.app_slug, a.tn_slug) :
                         /\ PermIdsOf(db, r.id) = a.data
                         /\ \A x \in b.perm2role \cup db.perm2role :
                               x[2] # r.id => (x \in b.perm2role <=> x \in db.perm2role)
              ELSE last.code # "ok" /\ db = b
\* The part of C32 about ids that do not resolve, which the handlers keep.
C32_UnresolvedIdChangesNothing ==
    LET b == last.before
        a == last.args
    IN /\ (last.op = "change_user_roles" /\ Handled
            /\ ~Resolve(Scoped(b, b.roles, a.app_slug, a.tn_slug), a.data)) =>
              (last.code = "not-found" /\ db = b)
       /\ (last.op = "change_role_permissions" /\ Handled
            /\ ~Resolve(Scoped(b, b.perms, a.app_slug, a.tn_slug), a.data)) =>
              (last.code = "not-found" /\ db = b)
\* No replace request is answered with success.
C32_ChangeNeverSucceeds ==
    last.op \in {"change_user_roles", "change_role_permissions"} => last.code # "ok"

\* C33: a request that removes from a user of the tenant of its path roles
\* that the user all holds (from a role permissions that it all holds)
\* succeeds and removes exactly the listed associations: afterwards none of
\* the listed roles is assigned to the user (none of the listed permissions
\* to the role) and every other assignment is as it was.
C33_RemoveTakesExactlyTheListed ==
    LET b == last.before
        a == last.args
    IN /\ (last.op = "remove_roles_from_user" /\ Handled
            /\ WithId(Scoped(b, b.users, a.app_slug, a.tn_slug), a.user_id) # {}
            /\ Resolve(Scoped(b, b.roles, a.app_slug, a.tn_slug), a.data)
            /\ a.data \subseteq RoleIdsOf(b, a.user_id)) =>
              /\ last.code = "ok"
              /\ db.user2role = b.user2role \ {<<a.user_id, id>> : id \in a.data}
              /\ db = [b EXCEPT !.user2role = db.user2role]
       /\ (last.op = "remove_permissions_from_role" /\ Handled
            /\ Resolve(Scoped(b, b.perms, a.app_slug, a.tn_slug), a.data)
            /\ \E r \in Scoped(b, b.roles, a.app_slug, a.tn_slug) :
                  a.data \subseteq PermIdsOf(b, r.id)) =>
              /\ last.code = "ok"
              /\ \E r \in Scoped(b, b.roles, a.app_slug, a.tn_slug) :
                    db.perm2role = b.perm2role \ {<<id, r.id>> : id \in a.data}
              /\ db = [b EXCEPT !.perm2role = db.perm2role]
\* No remove request is answered with success, and none removes anything.
C33_RemoveNeverSucceeds ==
    last.op \in {"remove_roles_from_user", "remove_permissions_from_role"} =>
        (last.code # "ok" /\ db = last.before)

\* C34: a token that login issued and the gate accepts resolves to the
\* user row it was issued for: the gate never answers a token issued for a
\* user of another application or tenant, or for a user since renamed or
\* deleted, as a different user that bears the same name.
C34_TokenResolvesToItsOwnUser ==
    (last.op = "request" /\ last.code = "ok" /\ last.token \in tokens) =>
        last.user = last.token.uid
\* A token that login issued for a user of the management tenant resolves
\* to that user as long as no request renames or deletes users.
C34_ManagementTokenResolvesToItsUser ==
    (last.op = "request" /\ last.code = "ok" /\ last.token \in tokens
        /\ \E u \in select_user_by_slug(db, MANAGEMENT_APP, MANAGEMENT_TENANT) :
              u.id = last.token.uid) =>
        last.user = last.token.uid

\* C35: in every store the service reaches each assignment of a role to a
\* user joins a user and a role of the same tenant and each assignment of
\* a permission to a role joins a permission and a role of the same
\* tenant, so the permissions a user resolves to all belong to the user's
\* own tenant.
C35_AssignmentsStayWithinTenant ==
    /\ \A x \in db.user2role :
          \E u \in db.users, r \in db.roles :
              u.id = x[1] /\ r.id = x[2] /\ u.tenant_id = r.tenant_id
    /\ \A x \in db.perm2role :
          \E p \in db.perms, r \in db.roles :
              p.id = x[1] /\ r.id = x[2] /\ p.tenant_id = r.tenant_id
    /\ \A u \in db.users : \A r \in user_roles(db, u) : \A p \in role_perms(db, r) :
          p.tenant_id = u.tenant_id
    /\ \A u \in db.users :
          get_permissions(db, u) \subseteq get_permissions_of_tenant(db, u)
\* A request asked to give a role of the tenant of its path to a user of
\* another tenant, in a store where both tenants have assignments.
C35_Witness ==
    /\ last.op = "add_role_to_user"
    /\ Handled
    /\ \E u \in db.users, r \in db.roles :
          /\ u.id = last.args.user_id
          /\ r.id = last.args.id
          /\ r \in Scoped(db, db.roles, last.args.app_slug, last.args.tn_slug)
          /\ u.tenant_id # r.tenant_id
    /\ \E x, y \in db.user2role :
          \E u, v \in db.users : u.id = x[1] /\ v.id = y[1] /\ u.tenant_id # v.tenant_id
    /\ Cardinality(db.perm2role) >= Len(MANAGEMENT_PERMS)

BootOver == last.op = "boot" /\ \A i \in 1..2 : last.at[i] \in {"committed", "failed"}
\* How often the store holds what the bootstrap is to ensure.
ManagementApps(d) == probe_app(d, MANAGEMENT_APP)
ManagementTenants(d) == {t \in d.tenants : t.slug = MANAGEMENT_TENANT}
SuperUsers(d) == {u \in d.users : u.name = super_user}
SuperRoles(d) == {r \in d.roles : r.name = super_role}

\* C36: when two bootstrap runs overlap on an empty store, both having
\* found it empty, at most one of them commits; the other one fails on the
\* uniqueness of Application.slug and none of its writes is persisted: the
\* store is what the run that committed alone would have left, with one
\* management application, one tenant, one super user, one super role and
\* each permission of the catalog once.
C36_OneBootstrapWinsOnEmptyStore ==
    (BootOver /\ last.before = EmptyDb) =>
        /\ Cardinality(ManagementApps(db)) <= 1
        /\ Cardinality(ManagementTenants(db)) <= 1
        /\ Cardinality(SuperUsers(db)) <= 1
        /\ Cardinality(SuperRoles(db)) <= 1
        /\ \A name \in CatalogNames :
              Cardinality({p \in db.perms : p.name = name}) <= 1
        /\ (\A i \in 1..2 : last.result[i].is_app_new) =>
              \E i, j \in 1..2 :
                  /\ i # j
                  /\ last.at[i] = "committed"
                  /\ last.at[j] = "failed"
                  /\ last.slug_clash[j]
                  /\ db = last.result[i].db
\* A run whose commit fails leaves the store as it was.
C36_FailedRunPersistsNothing ==
    [][\A i \in 1..2 :
          (/\ last.op = "boot"
           /\ last'.op = "boot"
           /\ last.at[i] = "probed"
           /\ last'.at[i] = "failed") => db' = db]_vars
\* Both runs found the store empty; one committed and the other failed.
C36_Witness ==
    /\ BootOver
    /\ last.before = EmptyDb
    /\ \A i \in 1..2 : last.result[i].is_app_new
    /\ last.at[1] = "failed"
    /\ last.at[2] = "committed"
    /\ last.salt[1] # last.salt[2]
    /\ Cardinality(db.perms) = Len(MANAGEMENT_PERMS)

\* C37: a bootstrap that finds the super user leaves its stored password
\* hash and its suspended flag as they were, whatever password is
\* configured and however it is salted, and it leaves the name and the
\* description of every role and permission that was there; all it does is
\* add the rows and the assignments that were missing.
C37_BootstrapOnlyAdds ==
    last.op = "init_db" =>
        LET b == last.before
        IN /\ b.apps \subseteq db.apps
           /\ b.tenants \subseteq db.tenants
           /\ b.users \subseteq db.users
           /\ b.roles \subseteq db.roles
           /\ b.perms \subseteq db.perms
           /\ b.user2role \subseteq db.user2role
           /\ b.perm2role \subseteq db.perm2role
           /\ \A u \in db.users \ b.users : u.id \notin {x.id : x \in b.users}
           /\ \A r \in db.roles \ b.roles : r.id \notin {x.id : x \in b.roles}
           /\ \A p \in db.perms \ b.perms : p.id \notin {x.id : x \in b.perms}
           /\ (last.result.ok /\ ~last.result.is_u_new) =>
                 \E u \in b.users :
                     /\ u.id = last.result.user
                     /\ u \in db.users
                     /\ db.users = b.users
\* The run found the super user suspended, with a hash salted otherwise
\* than the one it was given, and permissions whose description is not
\* the one of the catalog; it added the permissions that were missing.
C37_Witness ==
    /\ last.op = "init_db"
    /\ last.result.ok
    /\ ~last.result.is_u_new
    /\ last.result.has_new_perms
    /\ \E u \in db.users :
          /\ u.id = last.result.user
          /\ u.suspended
          /\ u.password # pwd_hash(super_password, last.salt)
          /\ pwd_verify(super_password, u.password)
    /\ \E p \in last.before.perms, i \in 1..Len(MANAGEMENT_PERMS) :
          /\ p.id \in last.result.perms
          /\ p.name = MANAGEMENT_PERMS[i].name
          /\ p.description # MANAGEMENT_PERMS[i].description
          /\ p \in db.perms

\* The store without the users that bear the name in the tenant of the
\* login, everything else being the same.
WithoutUser(d, app_slug, tenant, username) ==
    LET gone == {u \in select_user_by_slug(d, app_slug, tenant) : u.name = username}
    IN [d EXCEPT !.users = @ \ gone,
                 !.user2role = {x \in @ : x[1] \notin {u.id : u \in gone}}]
LoginRejections == {"no-user", "suspended", "password", "scopes"}

\* C38: a login rejected because the user is unknown, is suspended, gave a
\* wrong password or asked for scopes it does not hold is answered with
\* status 401 and the error invalid-credentials, whichever of the four it
\* was; the response is, but for the trace id, the one the same login gets
\* from the store that differs only in not holding the user.
C38_RejectedLoginsLookAlike ==
    (last.op = "login" /\ last.why \in LoginRejections) =>
        LET here == login_response([code |-> last.code, token |-> last.token])
            there == login_response(
                         common_login(WithoutUser(db, last.target[1], last.target[2],
                                                  last.username),
                                      settings, now, last.target[1], last.target[2],
                                      last.username, last.password, last.scopes))
        IN /\ here.status = 401
           /\ here.code = "invalid-credentials"
           /\ here.token = NoToken
           /\ here = there
\* A user that exists and gave the right password was rejected for the
\* scopes it asked for.
C38_Witness ==
    /\ last.op = "login"
    /\ last.why = "scopes"
    /\ last.code = "invalid-credentials"
    /\ \E u \in UsersNamed(last.target[1], last.target[2], last.username) :
          /\ ~u.suspended
          /\ pwd_verify(last.password, u.password)
    /\ common_login(WithoutUser(db, last.target[1], last.target[2], last.username),
                    settings, now, last.target[1], last.target[2],
                    last.username, last.password, last.scopes).why = "no-user"

====
